---- MODULE Spec2Model ----
(***************************************************************************)
(* VpnCloud front end: configuration merge (config.rs), listen-address     *)
(* parsing, keepalive default, and the start-up sequence of main.rs.       *)
(*                                                                         *)
(* Encodings                                                               *)
(*   Option<T>   : <<>> is None, <<v>> is Some(v)                          *)
(*   String      : a TLA+ string, except where the program parses the      *)
(*                 text (listen), where it is a sequence of characters     *)
(*   Duration    : an unsigned 32-bit integer kept as two 16-bit limbs     *)
(*                 <<hi, lo>> (value hi * 65536 + lo)                      *)
(*   SocketAddr  : [ip |-> [v |-> 4 | 6, segs |-> tuple], port |-> 0..65535]*)
(***************************************************************************)
EXTENDS Integers, Sequences, FiniteSets, TLC

VARIABLES
    config,     \* the Config value being built (config.rs:32-64)
    file,       \* the ConfigFile handed to merge_file
    args,       \* the Args handed to merge_args / read by main
    hist,       \* the Config values before each merge applied so far
    ops,        \* the merges applied so far, oldest first
    status,     \* "ok", or "exited" once a try_fail! has ended the process
    addr,       \* the text handed to parse_listen
    listenRes,  \* the outcome of parse_listen(addr)
    kaRes,      \* the outcome of get_keepalive
    pc,         \* main's position
    events,     \* the externally visible steps main has performed, in order
    todo,       \* run(): configured peers not yet visited by the connect loop
    reconnect,  \* run(): addresses registered with add_reconnect_peer
    disk,       \* the config file on disk: its kind and what parsing it yields
    ifname,     \* run(): the interface name the operating system returned
    maskRes,    \* the outcome of parse_ip_netmask(addr)
    target,     \* the target_os the device code is built for
    device,     \* the Device under test (TunTapDevice or MockDevice)
    inbound,    \* MockDevice.inbound, front first
    outbound,   \* MockDevice.outbound, front first
    calls       \* the calls made on the device and what they returned

vars == <<config, file, args, hist, ops, status, addr, listenRes, kaRes,
          pc, events, todo, reconnect, disk, ifname,
          maskRes, target, device, inbound, outbound, calls>>
mainVars == <<pc, events, todo, reconnect, disk, ifname>>
devVars == <<maskRes, target, device, inbound, outbound, calls>>

----------------------------------------------------------------------------
(* Bounds *)

MaxMerges == 3      \* merges applied to one Config in the merge specification
MaxGarbage == 3     \* length of the free-form texts handed to parse_listen
MaxSmallTimeout == 400  \* peer_timeout values 0..MaxSmallTimeout are enumerated

----------------------------------------------------------------------------
(* Option<T> *)

None == <<>>
Some(v) == <<v>>
IsSome(o) == Len(o) = 1
Unwrap(o) == o[1]

----------------------------------------------------------------------------
(* Duration: util::Duration, an unsigned 32-bit integer *)

DurationBits == 32
Limb == 2 ^ (DurationBits \div 2)
U32(n) == <<n \div Limb, n % Limb>>
DurationMax == <<Limb - 1, Limb - 1>>
DurLess(a, b) == a[1] < b[1] \/ (a[1] = b[1] /\ a[2] < b[2])
DurMax(a, b) == IF DurLess(a, b) THEN b ELSE a
\* d / 2, which always fits 31 bits
DurHalf(d) == d[1] * (Limb \div 2) + d[2] \div 2

DEFAULT_PEER_TIMEOUT == 300
DEFAULT_PORT == 3210

----------------------------------------------------------------------------
(* Text parsing done by the standard library on behalf of parse_listen *)

DigitChars == <<"0", "1", "2", "3", "4", "5", "6", "7", "8", "9">>
HexChars == DigitChars \o <<"a", "b", "c", "d", "e", "f">>
HexVal(c) == (CHOOSE i \in 1..16 : HexChars[i] = c) - 1

\* value of a non-empty run of digits in the given radix, or -1 when a
\* character is not a digit or the value exceeds limit (checked arithmetic)
RECURSIVE ReadNumber(_, _, _, _)
ReadNumber(s, radix, limit, acc) ==
    IF s = <<>> THEN acc
    ELSE IF (\A i \in 1..16 : HexChars[i] # Head(s)) \/ HexVal(Head(s)) >= radix THEN -1
    ELSE LET n == acc * radix + HexVal(Head(s))
         IN IF n > limit THEN -1 ELSE ReadNumber(Tail(s), radix, limit, n)

\* str::parse::<u16>: optional '+', then at least one decimal digit
ParseU16(s) ==
    LET body == IF s # <<>> /\ Head(s) = "+" THEN Tail(s) ELSE s
        n == ReadNumber(body, 10, 65535, 0)
    IN IF body = <<>> \/ n < 0 THEN [ok |-> FALSE, val |-> 0]
       ELSE [ok |-> TRUE, val |-> n]

\* the pieces of s between occurrences of the separator character
RECURSIVE Split(_, _, _)
Split(s, sep, cur) ==
    IF s = <<>> THEN <<cur>>
    ELSE IF Head(s) = sep THEN <<cur>> \o Split(Tail(s), sep, <<>>)
    ELSE Split(Tail(s), sep, Append(cur, Head(s)))

IndexOf(s, c) ==
    IF \E i \in 1..Len(s) : s[i] = c
    THEN CHOOSE i \in 1..Len(s) : s[i] = c /\ \A j \in 1..(i - 1) : s[j] # c
    ELSE 0

\* one decimal octet: 1 to 3 digits, no leading zero, at most 255
ReadOctet(g) ==
    IF Len(g) = 0 \/ Len(g) > 3 \/ (Len(g) > 1 /\ Head(g) = "0") THEN -1
    ELSE ReadNumber(g, 10, 255, 0)

ParseIpv4(s) ==
    LET parts == Split(s, ".", <<>>)
    IN IF Len(parts) # 4 \/ \E i \in 1..4 : ReadOctet(parts[i]) < 0
       THEN [ok |-> FALSE, ip |-> [v |-> 4, segs |-> <<0, 0, 0, 0>>]]
       ELSE [ok |-> TRUE,
             ip |-> [v |-> 4, segs |-> [i \in 1..4 |-> ReadOctet(parts[i])]]]

\* one group of an IPv6 address: 1 to 4 hexadecimal digits
ReadGroup(g) ==
    IF Len(g) = 0 \/ Len(g) > 4 THEN -1 ELSE ReadNumber(g, 16, 65535, 0)

Zeros(n) == [i \in 1..n |-> 0]
Ipv6Fail == [ok |-> FALSE, ip |-> [v |-> 6, segs |-> Zeros(8)]]

\* the groups of a colon separated list, <<>> for the empty text
Groups(s) == IF s = <<>> THEN <<>> ELSE Split(s, ":", <<>>)

\* Ipv6Addr text without embedded IPv4 and without scope id: eight groups,
\* or fewer groups with one "::" standing for the missing zero groups
ParseIpv6(s) ==
    LET dbl == {i \in 1..(Len(s) - 1) : s[i] = ":" /\ s[i + 1] = ":"}
    IN IF dbl = {}
       THEN LET gs == Groups(s)
            IN IF Len(gs) # 8 \/ \E i \in 1..8 : ReadGroup(gs[i]) < 0
               THEN Ipv6Fail
               ELSE [ok |-> TRUE,
                     ip |-> [v |-> 6, segs |-> [i \in 1..8 |-> ReadGroup(gs[i])]]]
       ELSE IF Cardinality(dbl) > 1 THEN Ipv6Fail
       ELSE LET p == CHOOSE i \in dbl : TRUE
                hd == Groups(SubSeq(s, 1, p - 1))
                tl == Groups(SubSeq(s, p + 2, Len(s)))
            IN IF Len(hd) + Len(tl) > 7
                  \/ (\E i \in 1..Len(hd) : ReadGroup(hd[i]) < 0)
                  \/ (\E i \in 1..Len(tl) : ReadGroup(tl[i]) < 0)
               THEN Ipv6Fail
               ELSE [ok |-> TRUE,
                     ip |-> [v |-> 6,
                             segs |-> [i \in 1..Len(hd) |-> ReadGroup(hd[i])]
                                      \o Zeros(8 - Len(hd) - Len(tl))
                                      \o [i \in 1..Len(tl) |-> ReadGroup(tl[i])]]]

\* the port of a socket address: decimal digits only, no sign
ReadPort(s) == IF s = <<>> THEN -1 ELSE ReadNumber(s, 10, 65535, 0)

SockFail == [ok |-> FALSE, addr |-> [ip |-> [v |-> 6, segs |-> Zeros(8)], port |-> 0]]

\* str::parse::<SocketAddr>: "a.b.c.d:port" or "[ipv6]:port"
ParseSocketAddr(s) ==
    IF s # <<>> /\ Head(s) = "["
    THEN LET close == IndexOf(s, "]")
         IN IF close = 0 \/ close + 1 > Len(s) \/ s[close + 1] # ":" THEN SockFail
            ELSE LET ip == ParseIpv6(SubSeq(s, 2, close - 1))
                     port == ReadPort(SubSeq(s, close + 2, Len(s)))
                 IN IF ~ip.ok \/ port < 0 THEN SockFail
                    ELSE [ok |-> TRUE, addr |-> [ip |-> ip.ip, port |-> port]]
    ELSE LET colon == IndexOf(s, ":")
         IN IF colon = 0 THEN SockFail
            ELSE LET ip == ParseIpv4(SubSeq(s, 1, colon - 1))
                     port == ReadPort(SubSeq(s, colon + 1, Len(s)))
                 IN IF ~ip.ok \/ port < 0 THEN SockFail
                    ELSE [ok |-> TRUE, addr |-> [ip |-> ip.ip, port |-> port]]

Ipv6Unspecified == [v |-> 6, segs |-> Zeros(8)]
Contains(s, c) == \E i \in 1..Len(s) : s[i] = c
StartsWith(s, p) == Len(s) >= Len(p) /\ SubSeq(s, 1, Len(p)) = p

\* parse_listen binding the wildcard address whatever address is written
parse_listenMut(a) ==
    IF StartsWith(a, <<"*", ":">>)
    THEN LET port == ParseU16(SubSeq(a, 3, Len(a)))
         IN [ok |-> port.ok, addr |-> [ip |-> Ipv6Unspecified, port |-> port.val]]
    ELSE IF Contains(a, ":")
    THEN LET sa == ParseSocketAddr(a)
         IN [ok |-> sa.ok, addr |-> [ip |-> Ipv6Unspecified, port |-> sa.addr.port]]
    ELSE LET port == ParseU16(a)
         IN [ok |-> port.ok, addr |-> [ip |-> Ipv6Unspecified, port |-> port.val]]
\* parse_listen (config.rs:19-29); ok = FALSE is try_fail! ending the process
parse_listen(a) ==
    IF StartsWith(a, <<"*", ":">>)
    THEN LET port == ParseU16(SubSeq(a, 3, Len(a)))
         IN [ok |-> port.ok, addr |-> [ip |-> Ipv6Unspecified, port |-> port.val]]
    ELSE IF Contains(a, ":")
    THEN ParseSocketAddr(a)
    ELSE LET port == ParseU16(a)
         IN [ok |-> port.ok, addr |-> [ip |-> Ipv6Unspecified, port |-> port.val]]

----------------------------------------------------------------------------
(* Config, ConfigFile, Args *)

\* crypto::Config::default(): no password, no keys, empty lists
CryptoConfigDefault ==
    [password |-> None, private_key |-> None, public_key |-> None,
     trusted_keys |-> <<>>, algorithms |-> <<>>]

\* impl Default for Config (config.rs:66-99)
Default ==
    [device_type |-> "Tun",
     device_name |-> "vpncloud%d",
     device_path |-> None,
     fix_rp_filter |-> FALSE,
     ip |-> None,
     ifup |-> None,
     ifdown |-> None,
     crypto |-> CryptoConfigDefault,
     listen |-> [ip |-> Ipv6Unspecified, port |-> DEFAULT_PORT],
     peers |-> <<>>,
     peer_timeout |-> U32(DEFAULT_PEER_TIMEOUT),
     keepalive |-> None,
     beacon_store |-> None,
     beacon_load |-> None,
     beacon_interval |-> U32(3600),
     beacon_password |-> None,
     mode |-> "Normal",
     switch_timeout |-> U32(300),
     claims |-> <<>>,
     auto_claim |-> TRUE,
     port_forwarding |-> TRUE,
     daemonize |-> FALSE,
     pid_file |-> None,
     stats_file |-> None,
     statsd_server |-> None,
     statsd_prefix |-> None,
     user |-> None,
     group |-> None]

\* ConfigFile::default() (derived, config.rs:490-516): every option absent
EmptyFile ==
    [device |-> None, ip |-> None, ifup |-> None, ifdown |-> None,
     crypto |-> CryptoConfigDefault, listen |-> None, peers |-> None,
     peer_timeout |-> None, keepalive |-> None, beacon |-> None,
     mode |-> None, switch_timeout |-> None, claims |-> None,
     auto_claim |-> None, port_forwarding |-> None, pid_file |-> None,
     stats_file |-> None, statsd |-> None, user |-> None, group |-> None]

\* Args::default() (derived, config.rs:305-462): no flag given
NoArgs ==
    [config |-> None, type_ |-> None, device_path |-> None,
     fix_rp_filter |-> FALSE, mode |-> None, password |-> None,
     private_key |-> None, public_key |-> None, trusted_keys |-> <<>>,
     algorithms |-> <<>>, claims |-> <<>>, no_auto_claim |-> FALSE,
     device |-> None, listen |-> None, peers |-> <<>>,
     peer_timeout |-> None, keepalive |-> None, switch_timeout |-> None,
     beacon_store |-> None, beacon_load |-> None, beacon_interval |-> None,
     beacon_password |-> None, verbose |-> FALSE, quiet |-> FALSE,
     ip |-> None, ifup |-> None, ifdown |-> None, version |-> FALSE,
     genkey |-> FALSE, no_port_forwarding |-> FALSE, daemon |-> FALSE,
     pid_file |-> None, stats_file |-> None, statsd_server |-> None,
     statsd_prefix |-> None, user |-> None, group |-> None,
     log_file |-> None, migrate_config |-> FALSE]

\* `if let Some(val) = o { field = val }`
Over(o, old) == IF IsSome(o) THEN Unwrap(o) ELSE old
\* `if let Some(val) = o { field = Some(val) }`
OverSome(o, old) == IF IsSome(o) THEN o ELSE old
\* `if let Some(sec) = section { if let Some(val) = sec.k { field = val } }`
Sub(section, k) == IF IsSome(section) THEN Unwrap(section)[k] ELSE None

\* merge_file assigning the file's value whether given or not, replacing
\* the lists, and with ifup and ifdown crossed
merge_fileMut(c, f) ==
    [c EXCEPT
     !.device_type = "Tun",
     !.device_name = Over(Sub(f.device, "name"), "vpncloud%d"),
     !.device_path = Sub(f.device, "path"),
     !.fix_rp_filter = Over(Sub(f.device, "fix_rp_filter"), @),
     !.ip = f.ip,
     !.ifup = OverSome(f.ifdown, @),
     !.ifdown = OverSome(f.ifup, @),
     !.listen = IF IsSome(f.listen) THEN parse_listen(Unwrap(f.listen)).addr ELSE Default.listen,
     !.peers = IF IsSome(f.peers) THEN Unwrap(f.peers) ELSE @,
     !.peer_timeout = Over(f.peer_timeout, U32(DEFAULT_PEER_TIMEOUT)),
     !.keepalive = f.keepalive,
     !.beacon_store = Sub(f.beacon, "store"),
     !.beacon_load = Sub(f.beacon, "load"),
     !.beacon_interval = Over(Sub(f.beacon, "interval"), U32(3600)),
     !.beacon_password = Sub(f.beacon, "password"),
     !.mode = Over(f.mode, "Normal"),
     !.switch_timeout = Over(f.switch_timeout, U32(300)),
     !.claims = IF IsSome(f.claims) THEN Unwrap(f.claims) ELSE @,
     !.auto_claim = Over(f.auto_claim, @),
     !.port_forwarding = Over(f.port_forwarding, @),
     !.pid_file = f.pid_file,
     !.stats_file = f.stats_file,
     !.statsd_server = Sub(f.statsd, "server"),
     !.statsd_prefix = Sub(f.statsd, "prefix"),
     !.user = f.user,
     !.group = f.group,
     !.crypto = [password |-> f.crypto.password,
                 public_key |-> f.crypto.public_key,
                 private_key |-> f.crypto.private_key,
                 trusted_keys |-> f.crypto.trusted_keys,
                 algorithms |-> IF f.crypto.algorithms # <<>>
                                THEN f.crypto.algorithms ELSE @.algorithms]]
\* Config::merge_file (config.rs:103-201), for a file whose listen parses
merge_file(c, f) ==
    [c EXCEPT
     !.device_type = Over(Sub(f.device, "type_"), @),
     !.device_name = Over(Sub(f.device, "name"), @),
     !.device_path = OverSome(Sub(f.device, "path"), @),
     !.fix_rp_filter = Over(Sub(f.device, "fix_rp_filter"), @),
     !.ip = OverSome(f.ip, @),
     !.ifup = OverSome(f.ifup, @),
     !.ifdown = OverSome(f.ifdown, @),
     !.listen = IF IsSome(f.listen) THEN parse_listen(Unwrap(f.listen)).addr ELSE @,
     !.peers = IF IsSome(f.peers) THEN @ \o Unwrap(f.peers) ELSE @,
     !.peer_timeout = Over(f.peer_timeout, @),
     !.keepalive = OverSome(f.keepalive, @),
     !.beacon_store = OverSome(Sub(f.beacon, "store"), @),
     !.beacon_load = OverSome(Sub(f.beacon, "load"), @),
     !.beacon_interval = Over(Sub(f.beacon, "interval"), @),
     !.beacon_password = OverSome(Sub(f.beacon, "password"), @),
     !.mode = Over(f.mode, @),
     !.switch_timeout = Over(f.switch_timeout, @),
     !.claims = IF IsSome(f.claims) THEN @ \o Unwrap(f.claims) ELSE @,
     !.auto_claim = Over(f.auto_claim, @),
     !.port_forwarding = Over(f.port_forwarding, @),
     !.pid_file = OverSome(f.pid_file, @),
     !.stats_file = OverSome(f.stats_file, @),
     !.statsd_server = OverSome(Sub(f.statsd, "server"), @),
     !.statsd_prefix = OverSome(Sub(f.statsd, "prefix"), @),
     !.user = OverSome(f.user, @),
     !.group = OverSome(f.group, @),
     !.crypto = [password |-> OverSome(f.crypto.password, @.password),
                 public_key |-> OverSome(f.crypto.public_key, @.public_key),
                 private_key |-> OverSome(f.crypto.private_key, @.private_key),
                 trusted_keys |-> @.trusted_keys \o f.crypto.trusted_keys,
                 algorithms |-> IF f.crypto.algorithms # <<>>
                                THEN f.crypto.algorithms ELSE @.algorithms]]

\* the try_fail! inside parse_listen ends the process during merge_file
merge_file_fails(f) == IsSome(f.listen) /\ ~parse_listen(Unwrap(f.listen)).ok

\* merge_args treating algorithms like the other lists: the flags' entries
\* are appended
merge_argsAppendMut(c, a) ==
    [c EXCEPT
     !.device_type = Over(a.type_, @),
     !.device_name = Over(a.device, @),
     !.device_path = OverSome(a.device_path, @),
     !.fix_rp_filter = IF a.fix_rp_filter THEN TRUE ELSE @,
     !.ip = OverSome(a.ip, @),
     !.ifup = OverSome(a.ifup, @),
     !.ifdown = OverSome(a.ifdown, @),
     !.listen = IF IsSome(a.listen) THEN parse_listen(Unwrap(a.listen)).addr ELSE @,
     !.peers = @ \o a.peers,
     !.peer_timeout = Over(a.peer_timeout, @),
     !.keepalive = OverSome(a.keepalive, @),
     !.beacon_store = OverSome(a.beacon_store, @),
     !.beacon_load = OverSome(a.beacon_load, @),
     !.beacon_interval = Over(a.beacon_interval, @),
     !.beacon_password = OverSome(a.beacon_password, @),
     !.mode = Over(a.mode, @),
     !.switch_timeout = Over(a.switch_timeout, @),
     !.claims = @ \o a.claims,
     !.auto_claim = IF a.no_auto_claim THEN FALSE ELSE @,
     !.port_forwarding = IF a.no_port_forwarding THEN FALSE ELSE @,
     !.daemonize = IF a.daemon THEN TRUE ELSE @,
     !.pid_file = OverSome(a.pid_file, @),
     !.stats_file = OverSome(a.stats_file, @),
     !.statsd_server = OverSome(a.statsd_server, @),
     !.statsd_prefix = OverSome(a.statsd_prefix, @),
     !.user = OverSome(a.user, @),
     !.group = OverSome(a.group, @),
     !.crypto = [password |-> OverSome(a.password, @.password),
                 public_key |-> OverSome(a.public_key, @.public_key),
                 private_key |-> OverSome(a.private_key, @.private_key),
                 trusted_keys |-> @.trusted_keys \o a.trusted_keys,
                 algorithms |-> @.algorithms \o a.algorithms]]
\* merge_args assigning the boolean flags whether set or not and putting
\* the flags' list entries in front
merge_argsMut(c, a) ==
    [c EXCEPT
     !.device_type = Over(a.type_, @),
     !.device_name = Over(a.device, @),
     !.device_path = OverSome(a.device_path, @),
     !.fix_rp_filter = a.fix_rp_filter,
     !.ip = OverSome(a.ip, @),
     !.ifup = OverSome(a.ifup, @),
     !.ifdown = OverSome(a.ifdown, @),
     !.listen = IF IsSome(a.listen) THEN parse_listen(Unwrap(a.listen)).addr ELSE @,
     !.peers = a.peers \o @,
     !.peer_timeout = Over(a.peer_timeout, @),
     !.keepalive = OverSome(a.keepalive, @),
     !.beacon_store = OverSome(a.beacon_store, @),
     !.beacon_load = OverSome(a.beacon_load, @),
     !.beacon_interval = Over(a.beacon_interval, @),
     !.beacon_password = OverSome(a.beacon_password, @),
     !.mode = Over(a.mode, @),
     !.switch_timeout = Over(a.switch_timeout, @),
     !.claims = a.claims \o @,
     !.auto_claim = ~a.no_auto_claim,
     !.port_forwarding = ~a.no_port_forwarding,
     !.daemonize = a.daemon,
     !.pid_file = OverSome(a.pid_file, @),
     !.stats_file = OverSome(a.stats_file, @),
     !.statsd_server = OverSome(a.statsd_server, @),
     !.statsd_prefix = OverSome(a.statsd_prefix, @),
     !.user = OverSome(a.user, @),
     !.group = OverSome(a.group, @),
     !.crypto = [password |-> OverSome(a.password, @.password),
                 public_key |-> OverSome(a.public_key, @.public_key),
                 private_key |-> OverSome(a.private_key, @.private_key),
                 trusted_keys |-> a.trusted_keys \o @.trusted_keys,
                 algorithms |-> IF a.algorithms # <<>>
                                THEN a.algorithms ELSE @.algorithms]]
\* Config::merge_args (config.rs:203-294), for flags whose listen parses
merge_args(c, a) ==
    [c EXCEPT
     !.device_type = Over(a.type_, @),
     !.device_name = Over(a.device, @),
     !.device_path = OverSome(a.device_path, @),
     !.fix_rp_filter = IF a.fix_rp_filter THEN TRUE ELSE @,
     !.ip = OverSome(a.ip, @),
     !.ifup = OverSome(a.ifup, @),
     !.ifdown = OverSome(a.ifdown, @),
     !.listen = IF IsSome(a.listen) THEN parse_listen(Unwrap(a.listen)).addr ELSE @,
     !.peers = @ \o a.peers,
     !.peer_timeout = Over(a.peer_timeout, @),
     !.keepalive = OverSome(a.keepalive, @),
     !.beacon_store = OverSome(a.beacon_store, @),
     !.beacon_load = OverSome(a.beacon_load, @),
     !.beacon_interval = Over(a.beacon_interval, @),
     !.beacon_password = OverSome(a.beacon_password, @),
     !.mode = Over(a.mode, @),
     !.switch_timeout = Over(a.switch_timeout, @),
     !.claims = @ \o a.claims,
     !.auto_claim = IF a.no_auto_claim THEN FALSE ELSE @,
     !.port_forwarding = IF a.no_port_forwarding THEN FALSE ELSE @,
     !.daemonize = IF a.daemon THEN TRUE ELSE @,
     !.pid_file = OverSome(a.pid_file, @),
     !.stats_file = OverSome(a.stats_file, @),
     !.statsd_server = OverSome(a.statsd_server, @),
     !.statsd_prefix = OverSome(a.statsd_prefix, @),
     !.user = OverSome(a.user, @),
     !.group = OverSome(a.group, @),
     !.crypto = [password |-> OverSome(a.password, @.password),
                 public_key |-> OverSome(a.public_key, @.public_key),
                 private_key |-> OverSome(a.private_key, @.private_key),
                 trusted_keys |-> @.trusted_keys \o a.trusted_keys,
                 algorithms |-> IF a.algorithms # <<>>
                                THEN a.algorithms ELSE @.algorithms]]

merge_args_fails(a) == IsSome(a.listen) /\ ~parse_listen(Unwrap(a.listen)).ok

\* get_keepalive keeping a configured value within 1 and peer_timeout
get_keepaliveClampMut(c) ==
    IF IsSome(c.keepalive)
    THEN LET k == DurMax(Unwrap(c.keepalive), U32(1))
         IN {[kind |-> "value",
              val |-> IF DurLess(k, c.peer_timeout) THEN k ELSE c.peer_timeout]}
    ELSE LET h == DurHalf(c.peer_timeout)
         IN IF h >= 60 THEN {[kind |-> "value", val |-> DurMax(U32(h - 60), U32(1))]}
            ELSE {[kind |-> "panic", val |-> U32(0)],
                  [kind |-> "value",
                   val |-> DurMax(<<Limb - 1, Limb + h - 60>>, U32(1))]}
\* get_keepalive without the max(.., 1)
get_keepaliveMut(c) ==
    IF IsSome(c.keepalive) THEN {[kind |-> "value", val |-> Unwrap(c.keepalive)]}
    ELSE LET h == DurHalf(c.peer_timeout)
         IN IF h >= 60 THEN {[kind |-> "value", val |-> U32(h - 60)]}
            ELSE {[kind |-> "panic", val |-> U32(0)],
                  [kind |-> "value", val |-> <<Limb - 1, Limb + h - 60>>]}
\* Config::get_keepalive (config.rs:296-301): the set of outcomes.  The
\* subtraction is on the unsigned Duration: below 60 it overflows, which a
\* build with overflow checks turns into a panic and a build without them
\* into a wrap-around modulo 2^DurationBits.
get_keepalive(c) ==
    IF IsSome(c.keepalive) THEN {[kind |-> "value", val |-> Unwrap(c.keepalive)]}
    ELSE LET h == DurHalf(c.peer_timeout)
         IN IF h >= 60 THEN {[kind |-> "value", val |-> DurMax(U32(h - 60), U32(1))]}
            ELSE {[kind |-> "panic", val |-> U32(0)],
                  [kind |-> "value",
                   val |-> DurMax(<<Limb - 1, Limb + h - 60>>, U32(1))]}

----------------------------------------------------------------------------
(* The options, and the files and flag sets the merges are exercised with *)

SingleOptions ==
    {"device_type", "device_name", "device_path", "ip", "ifup", "ifdown",
     "listen", "peer_timeout", "keepalive", "beacon_store", "beacon_load",
     "beacon_interval", "beacon_password", "mode", "switch_timeout",
     "pid_file", "stats_file", "statsd_server", "statsd_prefix", "user",
     "group", "password", "public_key", "private_key"}
BoolOptions == {"fix_rp_filter", "auto_claim", "port_forwarding", "daemonize"}
AppendOptions == {"peers", "claims", "trusted_keys"}
ListOptions == AppendOptions \cup {"algorithms"}
AllOptions == SingleOptions \cup BoolOptions \cup ListOptions

StrVal(o, src) == o \o "@" \o src
DurVal(o, src) ==
    CASE o = "peer_timeout" -> IF src = "file" THEN U32(600) ELSE U32(1801)
      [] o = "keepalive" -> IF src = "file" THEN U32(840) ELSE U32(850)
      [] o = "switch_timeout" -> IF src = "file" THEN U32(301) ELSE U32(302)
      [] o = "beacon_interval" -> IF src = "file" THEN U32(7200) ELSE U32(3601)
ListVal(o, src) ==
    IF src = "file" THEN <<o \o "B", o \o "A">>
    ELSE <<o \o "A", o \o "C", o \o "A">>

ListenChoices == {"good", "badfile", "badargs"}
ListenText(src, lsel) ==
    CASE src = "file" /\ lsel = "badfile" -> <<"x">>
      [] src = "file" /\ lsel # "badfile" -> <<"*", ":", "3", "2", "1", "1">>
      [] src = "args" /\ lsel = "badargs" -> <<"1", ":", "2">>
      [] src = "args" /\ lsel # "badargs" ->
             <<"1", "2", "7", ".", "0", ".", "0", ".", "1", ":", "8", "0">>

Opt(P, o, v) == IF o \in P THEN Some(v) ELSE None

\* a ConfigFile giving exactly the options in P; fb is the value of the
\* boolean options it gives; with sec, a section or list without any given
\* option is present and empty instead of absent
FileOf(P, fb, sec, lsel) ==
    [device |->
        IF P \cap {"device_type", "device_name", "device_path", "fix_rp_filter"} = {} /\ ~sec
        THEN None
        ELSE Some([type_ |-> Opt(P, "device_type", "Dummy"),
                   name |-> Opt(P, "device_name", "vpn@file"),
                   path |-> Opt(P, "device_path", StrVal("device_path", "file")),
                   fix_rp_filter |-> Opt(P, "fix_rp_filter", fb)]),
     ip |-> Opt(P, "ip", <<"1", "0", ".", "0", ".", "1", ".", "1", "/", "1", "6">>),
     ifup |-> Opt(P, "ifup", StrVal("ifup", "file")),
     ifdown |-> Opt(P, "ifdown", StrVal("ifdown", "file")),
     crypto |-> [password |-> Opt(P, "password", StrVal("password", "file")),
                 private_key |-> Opt(P, "private_key", StrVal("private_key", "file")),
                 public_key |-> Opt(P, "public_key", StrVal("public_key", "file")),
                 trusted_keys |-> IF "trusted_keys" \in P
                                  THEN ListVal("trusted_keys", "file") ELSE <<>>,
                 algorithms |-> IF "algorithms" \in P
                                THEN ListVal("algorithms", "file") ELSE <<>>],
     listen |-> Opt(P, "listen", ListenText("file", lsel)),
     peers |-> IF "peers" \in P THEN Some(ListVal("peers", "file"))
               ELSE IF sec THEN Some(<<>>) ELSE None,
     peer_timeout |-> Opt(P, "peer_timeout", DurVal("peer_timeout", "file")),
     keepalive |-> Opt(P, "keepalive", DurVal("keepalive", "file")),
     beacon |->
        IF P \cap {"beacon_store", "beacon_load", "beacon_interval", "beacon_password"} = {} /\ ~sec
        THEN None
        ELSE Some([store |-> Opt(P, "beacon_store", StrVal("beacon_store", "file")),
                   load |-> Opt(P, "beacon_load", StrVal("beacon_load", "file")),
                   interval |-> Opt(P, "beacon_interval", DurVal("beacon_interval", "file")),
                   password |-> Opt(P, "beacon_password", StrVal("beacon_password", "file"))]),
     mode |-> Opt(P, "mode", "Router"),
     switch_timeout |-> Opt(P, "switch_timeout", DurVal("switch_timeout", "file")),
     claims |-> IF "claims" \in P THEN Some(ListVal("claims", "file"))
                ELSE IF sec THEN Some(<<>>) ELSE None,
     auto_claim |-> Opt(P, "auto_claim", fb),
     port_forwarding |-> Opt(P, "port_forwarding", fb),
     pid_file |-> Opt(P, "pid_file", StrVal("pid_file", "file")),
     stats_file |-> Opt(P, "stats_file", StrVal("stats_file", "file")),
     statsd |->
        IF P \cap {"statsd_server", "statsd_prefix"} = {} /\ ~sec
        THEN None
        ELSE Some([server |-> Opt(P, "statsd_server", StrVal("statsd_server", "file")),
                   prefix |-> Opt(P, "statsd_prefix", StrVal("statsd_prefix", "file"))]),
     user |-> Opt(P, "user", StrVal("user", "file")),
     group |-> Opt(P, "group", StrVal("group", "file"))]

\* an Args giving exactly the options in P
ArgsOf(P, lsel) ==
    [NoArgs EXCEPT
     !.type_ = Opt(P, "device_type", "Tap"),
     !.device = Opt(P, "device_name", "vpn@args"),
     !.device_path = Opt(P, "device_path", StrVal("device_path", "args")),
     !.fix_rp_filter = "fix_rp_filter" \in P,
     !.ip = Opt(P, "ip", <<"1", "0", ".", "0", ".", "1", ".", "2">>),
     !.ifup = Opt(P, "ifup", StrVal("ifup", "args")),
     !.ifdown = Opt(P, "ifdown", StrVal("ifdown", "args")),
     !.listen = Opt(P, "listen", ListenText("args", lsel)),
     !.peers = IF "peers" \in P THEN ListVal("peers", "args") ELSE <<>>,
     !.peer_timeout = Opt(P, "peer_timeout", DurVal("peer_timeout", "args")),
     !.keepalive = Opt(P, "keepalive", DurVal("keepalive", "args")),
     !.beacon_store = Opt(P, "beacon_store", StrVal("beacon_store", "args")),
     !.beacon_load = Opt(P, "beacon_load", StrVal("beacon_load", "args")),
     !.beacon_interval = Opt(P, "beacon_interval", DurVal("beacon_interval", "args")),
     !.beacon_password = Opt(P, "beacon_password", StrVal("beacon_password", "args")),
     !.mode = Opt(P, "mode", "Switch"),
     !.switch_timeout = Opt(P, "switch_timeout", DurVal("switch_timeout", "args")),
     !.claims = IF "claims" \in P THEN ListVal("claims", "args") ELSE <<>>,
     !.no_auto_claim = "auto_claim" \in P,
     !.no_port_forwarding = "port_forwarding" \in P,
     !.daemon = "daemonize" \in P,
     !.pid_file = Opt(P, "pid_file", StrVal("pid_file", "args")),
     !.stats_file = Opt(P, "stats_file", StrVal("stats_file", "args")),
     !.statsd_server = Opt(P, "statsd_server", StrVal("statsd_server", "args")),
     !.statsd_prefix = Opt(P, "statsd_prefix", StrVal("statsd_prefix", "args")),
     !.user = Opt(P, "user", StrVal("user", "args")),
     !.group = Opt(P, "group", StrVal("group", "args")),
     !.password = Opt(P, "password", StrVal("password", "args")),
     !.public_key = Opt(P, "public_key", StrVal("public_key", "args")),
     !.private_key = Opt(P, "private_key", StrVal("private_key", "args")),
     !.trusted_keys = IF "trusted_keys" \in P THEN ListVal("trusted_keys", "args") ELSE <<>>,
     !.algorithms = IF "algorithms" \in P THEN ListVal("algorithms", "args") ELSE <<>>]

\* the sets of given options: none, one option, all but one, all
Patterns == {"none", "only", "rest", "all"}
Given(o, pat) ==
    CASE pat = "none" -> {}
      [] pat = "only" -> {o}
      [] pat = "rest" -> AllOptions \ {o}
      [] pat = "all" -> AllOptions

----------------------------------------------------------------------------
(* The merge specification: a Config starting at Config::default() to which *)
(* merge_file(file) and merge_args(args) are applied in any order           *)

IdleKeepalive == [kind |-> "idle", val |-> U32(0)]
NoDisk == [exists |-> FALSE, doc |-> <<>>, old |-> None]

MainIdle ==
    /\ pc = "idle" /\ events = <<>> /\ todo = <<>> /\ reconnect = <<>>
    /\ disk = NoDisk /\ ifname = ""
ListenIdle == addr = <<>> /\ listenRes = None
KeepaliveIdle == kaRes = IdleKeepalive
NoDevice == [impl |-> "none"]
DeviceIdle ==
    /\ maskRes = None /\ target = "linux" /\ device = NoDevice
    /\ inbound = <<>> /\ outbound = <<>> /\ calls = <<>>

InitMerge ==
    /\ config = Default
    /\ \E o \in AllOptions, pf \in Patterns, pa \in Patterns,
          fb \in BOOLEAN, sec \in BOOLEAN, lsel \in ListenChoices :
          /\ file = FileOf(Given(o, pf), fb, sec, lsel)
          /\ args = ArgsOf(Given(o, pa), lsel)
    /\ hist = <<>>
    /\ ops = <<>>
    /\ status = "ok"
    /\ ListenIdle /\ KeepaliveIdle /\ MainIdle /\ DeviceIdle

\* config.merge_file(file)
MergeFile ==
    /\ status = "ok"
    /\ Len(ops) < MaxMerges
    /\ ops' = Append(ops, "file")
    /\ hist' = Append(hist, config)
    /\ IF merge_file_fails(file)
       THEN status' = "exited" /\ UNCHANGED config
       ELSE config' = merge_file(config, file) /\ UNCHANGED status
    /\ UNCHANGED <<file, args, addr, listenRes, kaRes, mainVars, devVars>>

\* config.merge_args(args)
MergeArgs ==
    /\ status = "ok"
    /\ Len(ops) < MaxMerges
    /\ ops' = Append(ops, "args")
    /\ hist' = Append(hist, config)
    /\ IF merge_args_fails(args)
       THEN status' = "exited" /\ UNCHANGED config
       ELSE config' = merge_args(config, args) /\ UNCHANGED status
    /\ UNCHANGED <<file, args, addr, listenRes, kaRes, mainVars, devVars>>

NextMerge == MergeFile \/ MergeArgs

SpecMerge == InitMerge /\ [][NextMerge]_vars

----------------------------------------------------------------------------
(* The keepalive specification: peer_timeout and keepalive come from the   *)
(* flags, then get_keepalive is called                                     *)

InitKeepalive ==
    /\ config = Default
    /\ file = EmptyFile
    /\ LET TimeoutSamples ==
                {U32(n) : n \in 0..MaxSmallTimeout}
                \cup {U32(65535), U32(65536), <<Limb \div 2 - 1, Limb - 1>>,
                      <<Limb \div 2, 0>>, <<Limb - 1, Limb - 2>>, DurationMax}
           KeepaliveSamples == {U32(0), U32(1), U32(840), DurationMax}
       IN  \E pt \in {None} \cup {Some(d) : d \in TimeoutSamples},
              k \in {None} \cup {Some(d) : d \in KeepaliveSamples} :
              args = [NoArgs EXCEPT !.peer_timeout = pt, !.keepalive = k]
    /\ hist = <<>> /\ ops = <<>> /\ status = "ok"
    /\ ListenIdle /\ KeepaliveIdle /\ MainIdle /\ DeviceIdle

\* config.get_keepalive()
GetKeepalive ==
    /\ status = "ok"
    /\ kaRes = IdleKeepalive
    /\ kaRes' \in get_keepalive(config)
    /\ UNCHANGED <<config, file, args, hist, ops, status, addr, listenRes,
                   mainVars, devVars>>

KeepaliveMergeArgs == kaRes = IdleKeepalive /\ MergeArgs

NextKeepalive == KeepaliveMergeArgs \/ GetKeepalive

SpecKeepalive == InitKeepalive /\ [][NextKeepalive]_vars

----------------------------------------------------------------------------
(* The listen specification: a text given as the listen option of a file   *)
(* and of the flags, parsed on its own and by the merges                   *)

\* decimal text of a natural number
RECURSIVE Digits(_)
Digits(n) == IF n < 10 THEN <<DigitChars[n + 1]>>
             ELSE Digits(n \div 10) \o <<DigitChars[(n % 10) + 1]>>
RECURSIVE HexDigits(_)
HexDigits(n) == IF n < 16 THEN <<HexChars[n + 1]>>
                ELSE HexDigits(n \div 16) \o <<HexChars[(n % 16) + 1]>>
RECURSIVE Join(_, _)
Join(parts, sep) ==
    IF Len(parts) = 0 THEN <<>>
    ELSE IF Len(parts) = 1 THEN parts[1]
    ELSE parts[1] \o <<sep>> \o Join(Tail(parts), sep)

\* the text of a socket address: a.b.c.d:port, [g:g:g:g:g:g:g:g]:port
FormatIp(ip) ==
    IF ip.v = 4 THEN Join([i \in 1..4 |-> Digits(ip.segs[i])], ".")
    ELSE <<"[">> \o Join([i \in 1..8 |-> HexDigits(ip.segs[i])], ":") \o <<"]">>
FormatSock(ip, port) == FormatIp(ip) \o <<":">> \o Digits(port)

SampleIps ==
    {[v |-> 4, segs |-> <<127, 0, 0, 1>>], [v |-> 4, segs |-> <<0, 0, 0, 0>>],
     [v |-> 4, segs |-> <<10, 200, 3, 255>>],
     [v |-> 6, segs |-> Zeros(8)],
     [v |-> 6, segs |-> <<65152, 0, 0, 0, 0, 0, 171, 1>>]}
SamplePorts == {0, 1, 80, 3210, 3211, 65535}
BadPorts == {65536, 70000, 99999}

\* every well-formed full socket address among the texts, with its meaning
ValidFull ==
    LET
        \* socket addresses written with "::", with what they denote
        ShortIpv6 ==
            {[text |-> <<"[", ":", ":", "]", ":", "8", "0">>,
              ip |-> [v |-> 6, segs |-> Zeros(8)], port |-> 80],
             [text |-> <<"[", ":", ":", "1", "]", ":", "8", "0">>,
              ip |-> [v |-> 6, segs |-> <<0, 0, 0, 0, 0, 0, 0, 1>>], port |-> 80],
             [text |-> <<"[", "f", "e", "8", "0", ":", ":", "a", ":", "1", "]", ":", "1">>,
              ip |-> [v |-> 6, segs |-> <<65152, 0, 0, 0, 0, 0, 10, 1>>], port |-> 1]}
    IN  {[text |-> FormatSock(ip, port), ip |-> ip, port |-> port] :
            ip \in SampleIps, port \in SamplePorts}
        \cup ShortIpv6

RECURSIVE Texts(_)
Texts(n) ==
    IF n = 0 THEN {<<>>}
    ELSE LET shorter == Texts(n - 1)
         IN shorter \cup {Append(t, c) : t \in shorter, c \in {"*", ":", "1", "9", "x", "+"}}

ListenTexts ==
    Texts(MaxGarbage)
    \cup {v.text : v \in ValidFull}
    \cup {FormatSock(ip, port) : ip \in SampleIps, port \in BadPorts}
    \cup {Digits(port) : port \in SamplePorts \cup BadPorts}
    \cup {<<"*", ":">> \o Digits(port) : port \in SamplePorts \cup BadPorts}
    \cup {<<"+">> \o Digits(port) : port \in SamplePorts}
    \cup {<<"0", "0">> \o Digits(port) : port \in SamplePorts}
    \cup {<<"[", ":", ":", "1", "]">>, <<"[", ":", ":", "1", "]", ":">>,
          <<"[", ":", ":", "1", "]", "8", "0">>, <<":", ":", "1">>,
          <<"1", ".", "2", ".", "3", ":", "8", "0">>,
          <<"2", "5", "6", ".", "0", ".", "0", ".", "1", ":", "8", "0">>,
          <<"0", "1", ".", "0", ".", "0", ".", "1", ":", "8", "0">>,
          <<"1", ".", "2", ".", "3", ".", "4", ":", "+", "8", "0">>,
          <<"1", ".", "2", ".", "3", ".", "4", ":">>,
          <<"1", ".", "2", ".", "3", ".", "4">>,
          <<"*", ":", "1", ".", "2", ".", "3", ".", "4", ":", "8", "0">>,
          <<"[", "1", ":", "2", ":", ":", "3", ":", ":", "4", "]", ":", "8", "0">>,
          <<"[", "1", ":", "2", ":", "3", ":", "4", ":", "5", ":", "6", ":", "7", "]", ":", "8", "0">>,
          <<"[", "1", "2", "3", "4", "5", ":", ":", "]", ":", "8", "0">>,
          <<"h", "o", "s", "t", ":", "8", "0">>}

InitListen ==
    /\ addr \in ListenTexts
    /\ listenRes = None
    /\ config = Default
    /\ file = [EmptyFile EXCEPT !.listen = Some(addr)]
    /\ args = [NoArgs EXCEPT !.listen = Some(addr)]
    /\ hist = <<>> /\ ops = <<>> /\ status = "ok"
    /\ KeepaliveIdle /\ MainIdle /\ DeviceIdle

\* parse_listen(addr)
ParseListen ==
    /\ listenRes = None
    /\ listenRes' = Some(parse_listen(addr))
    /\ UNCHANGED <<config, file, args, hist, ops, status, addr, kaRes,
                   mainVars, devVars>>

NextListen == ParseListen \/ MergeFile \/ MergeArgs

SpecListen == InitListen /\ [][NextListen]_vars

----------------------------------------------------------------------------
(* parse_ip_netmask (main.rs:121-133), and the specification that applies  *)
(* it to a text                                                            *)

MaxPrefix == 40

\* str::parse::<u8>: optional '+', then at least one decimal digit
ParseU8(s) ==
    LET body == IF s # <<>> /\ Head(s) = "+" THEN Tail(s) ELSE s
        n == ReadNumber(body, 10, 255, 0)
    IN IF body = <<>> \/ n < 0 THEN [ok |-> FALSE, val |-> 0]
       ELSE [ok |-> TRUE, val |-> n]

\* u32::checked_shl: None when the shift is not smaller than the width,
\* else the value shifted left with the high bits dropped
checked_shl(v, rhs) ==
    IF rhs >= DurationBits THEN None
    ELSE IF rhs >= 16 THEN Some(<<(v[2] * 2 ^ (rhs - 16)) % Limb, 0>>)
    ELSE Some(<<(v[1] * 2 ^ rhs + (v[2] * 2 ^ rhs) \div Limb) % Limb,
                (v[2] * 2 ^ rhs) % Limb>>)
\* parse_ip_netmask (main.rs:121-133)
parse_ip_netmask(a) ==
    LET pos == IndexOf(a, "/")
        ip_str == IF pos > 0 THEN SubSeq(a, 1, pos - 1) ELSE a
        len_str == IF pos > 0 THEN SubSeq(a, pos + 1, Len(a)) ELSE <<"2", "4">>
        prefix_len == ParseU8(len_str)
        ip == ParseIpv4(ip_str)
        \* u32::max_value().checked_shl(32 - prefix_len as u32)
        shifted == checked_shl(<<Limb - 1, Limb - 1>>, 32 - prefix_len.val)
        \* Ipv4Addr::from(u32): the four bytes, most significant first
        from(v) == [v |-> 4, segs |-> <<v[1] \div 256, v[1] % 256,
                                        v[2] \div 256, v[2] % 256>>]
        none == [v |-> 4, segs |-> <<0, 0, 0, 0>>]
        Err == [kind |-> "err", ip |-> none, netmask |-> none]
    IN  IF ~prefix_len.ok THEN Err
        ELSE IF prefix_len.val > 32 THEN Err
        ELSE IF ~ip.ok THEN Err
        ELSE IF ~IsSome(shifted) THEN [kind |-> "panic", ip |-> none, netmask |-> none]
        ELSE [kind |-> "ok", ip |-> ip.ip, netmask |-> from(Unwrap(shifted))]

\* the texts: an IPv4 address or something else, alone or followed by '/'
\* and a prefix length or something else
NetmaskIps == {ip \in SampleIps : ip.v = 4} \cup {[v |-> 4, segs |-> <<255, 255, 255, 255>>]}
BadIpTexts ==
    {<<>>, <<"1", "0", ".", "0", ".", "1">>, <<"1", "0", ".", "0", ".", "1", ".", "2", "5", "6">>,
     <<"h", "o", "s", "t">>, <<":", ":", "1">>}
PrefixTexts == {Digits(p) : p \in 0..MaxPrefix} \cup {Digits(255), Digits(256)}
BadPrefixTexts == {<<>>, <<"x">>, <<"-", "1">>, <<"2", "4", " ">>, <<"8", "/", "8">>}
NetmaskTexts ==
    LET ips == {FormatIp(ip) : ip \in NetmaskIps} \cup BadIpTexts
    IN  ips \cup {i \o <<"/">> \o p : i \in ips, p \in PrefixTexts \cup BadPrefixTexts}

InitNetmask ==
    /\ addr \in NetmaskTexts
    /\ maskRes = None
    /\ config = Default /\ file = EmptyFile /\ args = NoArgs
    /\ hist = <<>> /\ ops = <<>> /\ status = "ok"
    /\ listenRes = None /\ KeepaliveIdle /\ MainIdle
    /\ target = "linux" /\ device = NoDevice
    /\ inbound = <<>> /\ outbound = <<>> /\ calls = <<>>

\* parse_ip_netmask(addr)
ParseIpNetmask ==
    /\ maskRes = None
    /\ maskRes' = Some(parse_ip_netmask(addr))
    /\ status' = IF parse_ip_netmask(addr).kind = "panic" THEN "panicked" ELSE status
    /\ UNCHANGED <<config, file, args, hist, ops, addr, listenRes, kaRes, mainVars,
                   target, device, inbound, outbound, calls>>

SpecNetmask == InitNetmask /\ [][ParseIpNetmask]_vars

----------------------------------------------------------------------------
(* The device: TunTapDevice::new, Device::write, and the MockDevice queues *)

\* libc::IF_NAMESIZE (device.rs:5): the size of IfReq::ifr_name
IF_NAMESIZE == 16
MaxNameLen == 32
MaxCalls == 4

\* IfReq::new (device.rs:32-39) panics unless assert!(name.len() < IF_NAMESIZE)
IfReq_new_panics(name) == ~(Len(name) < IF_NAMESIZE)

\* TunTapDevice::default_path (device.rs:162-167)
default_path(type_) == IF type_ = "Dummy" THEN "/dev/null" ELSE "/dev/net/tun"
\* TunTapDevice::dummy (device.rs:184-190): the file opens or it does not
dummy(name, path, type_) ==
    {[kind |-> "err", dev |-> NoDevice],
     [kind |-> "ok",
      dev |-> [impl |-> "TunTapDevice", fd |-> <<>>, path |-> path,
               ifname |-> name, type_ |-> type_]]}
\* TunTapDevice::new (device.rs:138-159): the outcomes the operating system
\* allows; open() comes first, then IfReq::new, then the ioctl
TunTapDevice_new(name, type_, path) ==
    LET p == IF IsSome(path) THEN Unwrap(path) ELSE default_path(type_)
        Err == [kind |-> "err", dev |-> NoDevice]
        \* the name the ioctl reports: the kernel replaces %d by an index
        OsNames == IF name = "vpncloud%d" THEN {"vpncloud0", "vpncloud1"}
                   ELSE {name}
    IN  IF type_ = "Dummy" THEN dummy(name, p, type_)
        ELSE {Err} \cup
             IF IfReq_new_panics(name) THEN {[kind |-> "panic", dev |-> NoDevice]}
             ELSE {Err} \cup
                  {[kind |-> "ok",
                    dev |-> [impl |-> "TunTapDevice", fd |-> <<>>, path |-> p,
                             ifname |-> n, type_ |-> type_]] : n \in OsNames}

\* interface names of every length up to MaxNameLen, and the default name
RECURSIVE NameOfLen(_)
NameOfLen(n) == IF n = 0 THEN "" ELSE NameOfLen(n - 1) \o "a"

\* &data[start..]
Slice(data, start) == SubSeq(data, start + 1, Len(data))

\* TunTapDevice::correct_data_before_write: the identity on linux and android
\* (device.rs:218-222); on the BSD family (device.rs:224-248) a Tun device
\* gets the 4-byte Ethertype header written in front of the packet
correct_data_before_write(os, type_, buffer, start) ==
    IF os = "linux" \/ type_ # "Tun"
    THEN [kind |-> "ok", buffer |-> buffer, start |-> start]
    ELSE IF start < 4 \/ start >= Len(buffer)
    THEN [kind |-> "panic", buffer |-> buffer, start |-> start]
    ELSE LET version == buffer[start + 1] \div 16
             header == IF version = 4 THEN <<0, 0, 8, 0>> ELSE <<0, 0, 134, 221>>
         IN  IF version \notin {4, 6}
             THEN [kind |-> "panic", buffer |-> buffer, start |-> start]
             ELSE [kind |-> "ok",
                   buffer |-> [i \in 1..Len(buffer) |->
                                  IF i \in (start - 3)..start
                                  THEN header[i - (start - 4)] ELSE buffer[i]],
                   start |-> start - 4]

\* TunTapDevice::write (device.rs:266-272): one write_all of data[start..] on
\* the file, which the operating system takes as a whole or refuses
TunTapDevice_write(dev, os, data, start) ==
    LET c == correct_data_before_write(os, dev.type_, data, start)
    IN  IF c.kind = "panic" THEN {[kind |-> "panic", dev |-> dev]}
        ELSE {[kind |-> "ok",
               dev |-> [dev EXCEPT !.fd = Append(@, Slice(c.buffer, c.start))]],
              [kind |-> "err", dev |-> dev]}

\* what the interface transmits for the writes on the file: on the BSD family
\* the kernel takes the 4-byte header off a Tun device's packets
Transmitted(dev, os) ==
    [i \in 1..Len(dev.fd) |->
        IF os # "linux" /\ dev.type_ = "Tun" THEN Slice(dev.fd[i], 4) ELSE dev.fd[i]]

\* MockDevice::write queueing the whole buffer
MockDevice_writeMut(out, data, start) == Append(out, data)
\* MockDevice::write (device.rs:324-327): outbound.push_back(data[start..])
MockDevice_write(out, data, start) == Append(out, Slice(data, start))

\* MockDevice::pop_outbound (device.rs:297-299): outbound.pop_front()
pop_outbound(out) ==
    IF out = <<>> THEN [res |-> None, out |-> out]
    ELSE [res |-> Some(Head(out)), out |-> Tail(out)]

\* MockDevice::put_inbound queueing the packet in front
put_inboundMut(inb, data) == <<data>> \o inb
\* MockDevice::put_inbound (device.rs:293-295): inbound.push_back(data)
put_inbound(inb, data) == Append(inb, data)

\* MockDevice::has_inbound (device.rs:301-303): !inbound.is_empty()
has_inbound(inb) == inb # <<>>

\* MockDevice::read taking an empty queue for an empty packet
MockDevice_readMut(inb, buffer) ==
    LET data == IF inb = <<>> THEN <<>> ELSE Head(inb)
    IN  IF Len(data) > Len(buffer)
        THEN [kind |-> "panic", inbound |-> Tail(inb), buffer |-> buffer,
              start |-> 0, len |-> 0]
        ELSE [kind |-> "ok", inbound |-> IF inb = <<>> THEN inb ELSE Tail(inb),
              buffer |-> [i \in 1..Len(buffer) |->
                             IF i <= Len(data) THEN data[i] ELSE buffer[i]],
              start |-> 0, len |-> Len(data)]
\* MockDevice::read (device.rs:315-322): the front packet is taken off the
\* queue, then copied to buffer[0..data.len()], which panics when the buffer
\* is shorter than the packet; an empty queue gives Err
MockDevice_read(inb, buffer) ==
    IF inb = <<>>
    THEN [kind |-> "err", inbound |-> inb, buffer |-> buffer, start |-> 0, len |-> 0]
    ELSE LET data == Head(inb)
         IN  IF Len(data) > Len(buffer)
             THEN [kind |-> "panic", inbound |-> Tail(inb), buffer |-> buffer,
                   start |-> 0, len |-> 0]
             ELSE [kind |-> "ok", inbound |-> Tail(inb),
                   buffer |-> [i \in 1..Len(buffer) |->
                                  IF i <= Len(data) THEN data[i] ELSE buffer[i]],
                   start |-> 0, len |-> Len(data)]

\* a call on the device, as kept in calls
Call(op, data, start, res) == [op |-> op, data |-> data, start |-> start, res |-> res]

\* the buffers handed to write: an IPv4 packet behind 4 bytes of headroom,
\* an IPv6 packet behind 5, a frame without headroom
Buffers ==
    {<<170, 187, 204, 221, 69, 1, 2>>, <<1, 2, 3, 4, 5, 96, 7>>, <<255, 16>>}
Starts(data) == {0, 4, 5, Len(data)} \cap 0..Len(data)

\* the device specifications park the rest of the program
DeviceOnly ==
    /\ file = EmptyFile /\ args = NoArgs
    /\ hist = <<>> /\ ops = <<>> /\ status = "ok"
    /\ maskRes = None /\ device = NoDevice
    /\ inbound = <<>> /\ outbound = <<>> /\ calls = <<>>
    /\ ListenIdle /\ KeepaliveIdle /\ MainIdle
deviceRest ==
    <<config, file, args, hist, ops, addr, listenRes, kaRes, mainVars, maskRes, target>>

(* The specification of TunTapDevice::new, called as setup_device calls it *)

InitNew ==
    /\ config \in {[Default EXCEPT !.device_name = n, !.device_type = t,
                                   !.device_path = p] :
                      n \in {NameOfLen(l) : l \in 0..MaxNameLen} \cup {"vpncloud%d"}, t \in {"Tun", "Tap", "Dummy"},
                      p \in {None, Some("/tmp/vpncloud.dev")}}
    /\ target = "linux"
    /\ DeviceOnly

\* TunTapDevice::new(&config.device_name, config.device_type, path)
\* (main.rs:136-139)
TunTapNew ==
    /\ status = "ok" /\ device = NoDevice /\ calls = <<>>
    /\ \E r \in TunTapDevice_new(config.device_name, config.device_type,
                                  config.device_path) :
          /\ device' = r.dev
          /\ calls' = Append(calls, Call("new", <<>>, 0, r.kind))
          /\ status' = IF r.kind = "panic" THEN "panicked" ELSE status
    /\ UNCHANGED <<deviceRest, inbound, outbound>>

SpecNew == InitNew /\ [][TunTapNew]_vars

(* The specification of a Device in use: a TunTapDevice or a MockDevice is *)
(* created, then written to; the MockDevice's outbound queue is popped     *)

InitDevice ==
    /\ config \in {[Default EXCEPT !.device_type = t] : t \in {"Tun", "Tap", "Dummy"}}
    /\ target \in {"linux", "bsd"}
    /\ DeviceOnly

\* MockDevice::new (device.rs:289-291)
MockNew ==
    /\ status = "ok" /\ device = NoDevice /\ calls = <<>>
    /\ device' = [impl |-> "MockDevice"]
    /\ inbound' = <<>> /\ outbound' = <<>>
    /\ calls' = Append(calls, Call("new", <<>>, 0, "ok"))
    /\ UNCHANGED <<deviceRest, status>>

\* Device::write(data, start) on the device
DeviceWrite ==
    /\ status = "ok" /\ Len(calls) < MaxCalls
    /\ \E data \in Buffers : \E start \in Starts(data) :
          CASE device.impl = "MockDevice" ->
                  /\ outbound' = MockDevice_write(outbound, data, start)
                  /\ calls' = Append(calls, Call("write", data, start, "ok"))
                  /\ UNCHANGED <<device, status>>
            [] device.impl = "TunTapDevice" ->
                  \E r \in TunTapDevice_write(device, target, data, start) :
                     /\ device' = r.dev
                     /\ calls' = Append(calls, Call("write", data, start, r.kind))
                     /\ status' = IF r.kind = "panic" THEN "panicked" ELSE status
                     /\ UNCHANGED outbound
            [] OTHER -> FALSE
    /\ UNCHANGED <<deviceRest, inbound>>

\* MockDevice::pop_outbound()
PopOutbound ==
    /\ status = "ok" /\ Len(calls) < MaxCalls
    /\ device.impl = "MockDevice"
    /\ outbound' = pop_outbound(outbound).out
    /\ calls' = Append(calls, Call("pop_outbound", <<>>, 0, pop_outbound(outbound).res))
    /\ UNCHANGED <<deviceRest, device, inbound, status>>

NextDevice == TunTapNew \/ MockNew \/ DeviceWrite \/ PopOutbound

SpecDevice == InitDevice /\ [][NextDevice]_vars

(* The specification of a MockDevice as a test drives it: packets are put  *)
(* on its inbound queue and read, has_inbound is asked, and what the code  *)
(* under test writes is popped from its outbound queue                     *)

\* MockDevice::new() (device.rs:289-291, 330-334): both queues empty
InitMock ==
    /\ config = Default /\ target = "linux"
    /\ file = EmptyFile /\ args = NoArgs
    /\ hist = <<>> /\ ops = <<>> /\ status = "ok"
    /\ maskRes = None /\ device = [impl |-> "MockDevice"]
    /\ inbound = <<>> /\ outbound = <<>> /\ calls = <<>>
    /\ ListenIdle /\ KeepaliveIdle /\ MainIdle

\* MockDevice::put_inbound(data)
PutInbound ==
    /\ status = "ok" /\ Len(calls) < MaxCalls
    /\ device.impl = "MockDevice"
    /\ \E data \in {<<1, 2>>, <<7>>} :
          /\ inbound' = put_inbound(inbound, data)
          /\ calls' = Append(calls, Call("put_inbound", data, 0, "ok"))
    /\ UNCHANGED <<deviceRest, device, outbound, status>>

\* MockDevice::has_inbound()
HasInbound ==
    /\ status = "ok" /\ Len(calls) < MaxCalls
    /\ device.impl = "MockDevice"
    /\ calls' = Append(calls, Call("has_inbound", <<>>, 0,
                                   IF has_inbound(inbound) THEN "true" ELSE "false"))
    /\ UNCHANGED <<deviceRest, device, inbound, outbound, status>>

\* Device::read(buffer) on the MockDevice, with a buffer that holds every
\* packet or one that holds a single byte; the call is kept with the buffer
\* before and after it and the (start, length) returned
MockRead ==
    /\ status = "ok" /\ Len(calls) < MaxCalls
    /\ device.impl = "MockDevice"
    /\ \E buffer \in {<<0, 0, 0>>, <<9>>} :
          LET r == MockDevice_read(inbound, buffer)
          IN  /\ inbound' = r.inbound
              /\ calls' = Append(calls, [op |-> "read", data |-> r.buffer,
                                          start |-> r.start, res |-> r.kind,
                                          len |-> r.len, before |-> buffer])
              /\ status' = IF r.kind = "panic" THEN "panicked" ELSE status
    /\ UNCHANGED <<deviceRest, device, outbound>>

NextMock == PutInbound \/ MockRead \/ HasInbound \/ DeviceWrite \/ PopOutbound

SpecMock == InitMock /\ [][NextMock]_vars

----------------------------------------------------------------------------
(* The start-up specification: main() and run() of main.rs, one action per *)
(* step, the operating system's answers chosen freely                      *)

(* The config file as a document: a YAML mapping is a function from its    *)
(* keys to their values, a section is a mapping inside a mapping           *)

\* the keys of ConfigFile and of its sections (config.rs:464-516)
TopKeys ==
    {"device", "ip", "ifup", "ifdown", "crypto", "listen", "peers",
     "peer-timeout", "keepalive", "beacon", "mode", "switch-timeout", "claims",
     "auto-claim", "port-forwarding", "pid-file", "stats-file", "statsd",
     "user", "group"}
DeviceKeys == {"type", "name", "path", "fix-rp-filter"}
BeaconKeys == {"store", "load", "interval", "password"}
StatsdKeys == {"server", "prefix"}
CryptoKeys == {"password", "private-key", "public-key", "trusted-keys", "algorithms"}

\* the field a key is read into: rename_all = "kebab-case", rename = "type"
FieldName(k) ==
    CASE k = "type" -> "type_"
      [] k = "fix-rp-filter" -> "fix_rp_filter"
      [] k = "peer-timeout" -> "peer_timeout"
      [] k = "switch-timeout" -> "switch_timeout"
      [] k = "auto-claim" -> "auto_claim"
      [] k = "port-forwarding" -> "port_forwarding"
      [] k = "pid-file" -> "pid_file"
      [] k = "stats-file" -> "stats_file"
      [] k = "private-key" -> "private_key"
      [] k = "public-key" -> "public_key"
      [] k = "trusted-keys" -> "trusted_keys"
      [] OTHER -> k

\* #[serde(default)] on a struct of Option fields: a key that is absent
\* leaves its field None
ReadStruct(m, keys) ==
    [f \in {FieldName(k) : k \in keys} |->
        LET key == CHOOSE k \in keys : FieldName(k) = f
        IN  IF key \in DOMAIN m THEN Some(m[key]) ELSE None]
ReadSection(m, k, keys) ==
    IF k \in DOMAIN m THEN Some(ReadStruct(m[k], keys)) ELSE None
\* #[serde(default)] on the crypto section and on its lists
ReadCrypto(m) ==
    IF "crypto" \in DOMAIN m
    THEN [ReadStruct(m["crypto"], CryptoKeys) EXCEPT
             !.trusted_keys = IF IsSome(@) THEN Unwrap(@) ELSE <<>>,
             !.algorithms = IF IsSome(@) THEN Unwrap(@) ELSE <<>>]
    ELSE CryptoConfigDefault

\* deny_unknown_fields: a key outside the struct's fields is an error
UnknownField(m, keys) == ~(DOMAIN m \subseteq keys)

\* the deserializer without deny_unknown_fields: unknown keys are skipped
from_readerMut(doc) ==
    [ok |-> TRUE,
     file |-> [ReadStruct(doc, TopKeys) EXCEPT
                  !.device = ReadSection(doc, "device", DeviceKeys),
                  !.beacon = ReadSection(doc, "beacon", BeaconKeys),
                  !.statsd = ReadSection(doc, "statsd", StatsdKeys),
                  !.crypto = ReadCrypto(doc)]]
\* serde_yaml::from_reader::<ConfigFile> (main.rs:270, config.rs:464-516)
from_reader(doc) ==
    IF \/ UnknownField(doc, TopKeys)
       \/ "device" \in DOMAIN doc /\ UnknownField(doc["device"], DeviceKeys)
       \/ "beacon" \in DOMAIN doc /\ UnknownField(doc["beacon"], BeaconKeys)
       \/ "statsd" \in DOMAIN doc /\ UnknownField(doc["statsd"], StatsdKeys)
    THEN [ok |-> FALSE, file |-> EmptyFile]
    ELSE [ok |-> TRUE,
          file |-> [ReadStruct(doc, TopKeys) EXCEPT
                       !.device = ReadSection(doc, "device", DeviceKeys),
                       !.beacon = ReadSection(doc, "beacon", BeaconKeys),
                       !.statsd = ReadSection(doc, "statsd", StatsdKeys),
                       !.crypto = ReadCrypto(doc)]]

\* the document that states exactly the options a ConfigFile holds
WriteStruct(r, keys) ==
    [k \in {k \in keys : IsSome(r[FieldName(k)])} |-> Unwrap(r[FieldName(k)])]
WriteSection(o, keys) ==
    IF IsSome(o) THEN Some(WriteStruct(Unwrap(o), keys)) ELSE None
DocOf(f) ==
    LET crypto == WriteStruct([f.crypto EXCEPT
                        !.trusted_keys = IF @ = <<>> THEN None ELSE Some(@),
                        !.algorithms = IF @ = <<>> THEN None ELSE Some(@)],
                       CryptoKeys)
    IN  WriteStruct([f EXCEPT !.device = WriteSection(@, DeviceKeys),
                              !.beacon = WriteSection(@, BeaconKeys),
                              !.statsd = WriteSection(@, StatsdKeys),
                              !.crypto = IF DOMAIN crypto = {} THEN None
                                         ELSE Some(crypto)], TopKeys)

\* a document with one more key, which no struct of the file has
WithKey(m, k, v) == [x \in DOMAIN m \cup {k} |-> IF x = k THEN v ELSE m[x]]
WithUnknown(doc, where) ==
    CASE where = "none" -> doc
      [] where = "top" -> WithKey(doc, "network-id", "cafe")
      [] OTHER ->
            WithKey(doc, where,
                    WithKey(IF where \in DOMAIN doc THEN doc[where] ELSE <<>>,
                            "mtu", "1400"))


\* the constraints structopt enforces on the flags (config.rs:328-461)
ValidArgs(a) ==
    /\ (IsSome(a.password) \/ IsSome(a.private_key) \/ IsSome(a.config)
           \/ a.genkey \/ a.version)
    /\ ~(IsSome(a.private_key) /\ IsSome(a.password))
    /\ ~(a.genkey /\ IsSome(a.private_key))
    /\ ~(a.verbose /\ a.quiet)
    /\ (IsSome(a.statsd_prefix) => IsSome(a.statsd_server))
    /\ (a.migrate_config => IsSome(a.config))
    /\ (IsSome(a.type_) => Unwrap(a.type_) \in {"Tun", "Tap"})

\* what is at the path of --config: whether a file exists, the document it
\* holds, and what reading it as an OldConfigFile and converting it yields
DiskOf(f, where, old) == [exists |-> TRUE, doc |-> WithUnknown(DocOf(f), where), old |-> old]
\* the converted content of a file in the old format
OldFile == FileOf(Given("ifup", "rest"), TRUE, FALSE, "good")

StartArgs(P, lsel, cfg, log, flags) ==
    [ArgsOf((P \cup {"password"}) \ {"private_key"}, lsel)
        EXCEPT !.config = cfg, !.log_file = log,
               !.version = "version" \in flags, !.genkey = "genkey" \in flags,
               !.migrate_config = "migrate-config" \in flags]

\* the command lines and the files the runs start from
MainInputs ==
    LET
        MainFocus == {"peers", "ifup", "ifdown", "device_type", "device_name"}
        \* runs that read a well-formed file, merge it with the flags and start up
        RunInputs ==
            {[a |-> StartArgs(Given(o, pa), lsel, Some("vpn.yaml"), None, {}),
              d |-> DiskOf(FileOf(Given(o, pf), fb, FALSE, lsel), "none", None)] :
                o \in MainFocus, pf \in Patterns, pa \in Patterns,
                lsel \in ListenChoices, fb \in BOOLEAN}
        \* runs without a config file
        FlagOnlyInputs ==
            {[a |-> StartArgs(Given(o, pa), lsel, None, log, {}), d |-> NoDisk] :
                o \in MainFocus, pa \in Patterns, lsel \in ListenChoices,
                log \in {None, Some("vpn.log")}}
        \* runs whose config file is missing, has an unknown key, or is in the old format
        LoadInputs ==
            {[a |-> StartArgs(Given("peers", pa), "good", Some("vpn.yaml"), log, {}),
              d |-> IF exists THEN DiskOf(FileOf(Given("peers", pf), TRUE, FALSE, "good"), where, old)
                    ELSE NoDisk] :
                pa \in {"none", "all"}, pf \in {"only", "all"}, log \in {None, Some("vpn.log")},
                exists \in BOOLEAN, where \in {"none", "top", "device", "beacon", "statsd"}, old \in {None, Some(OldFile)}}
        \* runs with --version, --genkey or --migrate-config
        FlagInputs ==
            {[a |-> StartArgs(Given("peers", pa), "good", cfg, log, flags),
              d |-> IF exists THEN DiskOf(FileOf(Given("peers", "all"), TRUE, FALSE, "good"), where, old)
                    ELSE NoDisk] :
                pa \in {"none", "all"}, cfg \in {None, Some("vpn.yaml")},
                log \in {None, Some("vpn.log")}, flags \in (SUBSET {"version", "genkey", "migrate-config"}) \ {{}},
                exists \in BOOLEAN, where \in {"none", "top"}, old \in {None, Some(OldFile)}}
        \* runs whose interface name is given by --device, of several lengths
        NameInputs ==
            {[a |-> [StartArgs({}, "good", None, None, {}) EXCEPT
                        !.device = Some(name), !.type_ = Some(t)],
              d |-> NoDisk] :
                name \in {"vpncloud-net-15", "vpncloud-network", "vpncloud-network-of-31-bytes-xx"},
                t \in {"Tun", "Tap"}}
        \* runs whose interface address is given by --ip, well-formed or not
        IpInputs ==
            {[a |-> [StartArgs(P, "good", None, None, {}) EXCEPT !.ip = Some(ip)],
              d |-> NoDisk] :
                P \in {{}, {"ifup", "ifdown"}},
                ip \in {<<"1", "0", ".", "0", ".", "1", ".", "1", "/", "0">>,
                        <<"1", "0", ".", "0", ".", "1", ".", "1", "/", "8">>,
                        <<"1", "0", ".", "0", ".", "1", ".", "1", "/", "3", "3">>,
                        <<"1", "0", ".", "0", ".", "1", "/", "8">>}}
    IN  RunInputs \cup FlagOnlyInputs \cup LoadInputs \cup FlagInputs
           \cup NameInputs \cup IpInputs

InitMain ==
    /\ \E in \in MainInputs :
          /\ args = in.a
          /\ disk = in.d
          /\ ValidArgs(args)
    /\ config = Default
    /\ file = EmptyFile
    /\ hist = <<>> /\ ops = <<>> /\ status = "ok"
    /\ pc = "main" /\ events = <<>> /\ todo = <<>> /\ reconnect = <<>>
    /\ ifname = ""
    /\ ListenIdle /\ KeepaliveIdle /\ DeviceIdle

Emit(e) == events' = Append(events, e)

\* try_fail! on an Err, fail!: log one line and end the process
try_fail(msg) ==
    /\ Emit(<<"fail", msg>>)
    /\ pc' = "exited"
    /\ status' = "exited"

\* run() constructing the runtime before it requests port forwarding
RunStepsMut ==
    <<"setup_device", "configure", "ifup", "rp_filter", "stats_file",
      "cloud_new", "port_forwarding", "connect", "privileges", "loop", "running",
      "ifdown", "returned">>
\* the statements of run() with setup_device() inlined, in program order
RunSteps ==
    <<"setup_device", "configure", "ifup", "rp_filter", "port_forwarding",
      "stats_file", "cloud_new", "connect", "privileges", "loop", "running",
      "ifdown", "returned">>
StepAfter(p) == RunSteps[(CHOOSE i \in 1..Len(RunSteps) : RunSteps[i] = p) + 1]

notMain == <<config, file, args, hist, ops, addr, listenRes, kaRes, devVars>>

\* main.rs:225-228
MainVersion ==
    /\ pc = "main"
    /\ args.version
    /\ Emit(<<"print_version">>)
    /\ pc' = "returned"
    /\ UNCHANGED <<notMain, status, todo, reconnect, disk, ifname>>

\* --genkey looked at before --version
MainGenkeyMut ==
    /\ pc = "main"
    /\ args.genkey
    /\ Emit(<<"genkey">>)
    /\ pc' = "returned"
    /\ UNCHANGED <<notMain, status, todo, reconnect, disk, ifname>>
\* main.rs:229-236
MainGenkey ==
    /\ pc = "main"
    /\ ~args.version /\ args.genkey
    /\ Emit(<<"genkey">>)
    /\ pc' = "returned"
    /\ UNCHANGED <<notMain, status, todo, reconnect, disk, ifname>>

\* main.rs:237-246, DualLogger::new (main.rs:65-76)
MainOpenLog ==
    /\ pc = "main"
    /\ ~args.version /\ ~args.genkey
    /\ IF IsSome(args.log_file)
       THEN \E ok \in BOOLEAN :
               IF ok THEN /\ Emit(<<"open_log", Unwrap(args.log_file)>>)
                          /\ pc' = "logged" /\ UNCHANGED status
               ELSE try_fail("Failed to open logfile")
       ELSE pc' = "logged" /\ UNCHANGED <<events, status>>
    /\ UNCHANGED <<notMain, todo, reconnect, disk, ifname>>

\* main.rs:247-265: --migrate-config rewrites the file and returns
MainMigrate ==
    /\ pc = "logged"
    /\ args.migrate_config
    /\ IF ~disk.exists THEN try_fail("Failed to open config file") /\ UNCHANGED disk
       ELSE IF ~IsSome(disk.old)
       THEN try_fail("Config file not valid for version 1") /\ UNCHANGED disk
       ELSE \E res \in {"ok", "Failed to rename original file",
                        "Failed to open config file",
                        "Failed to set permissions on file",
                        "Failed to write converted config"} :
               IF res = "ok"
               THEN /\ events' = events \o <<<<"open_config", Unwrap(args.config)>>,
                                            <<"rename_config", Unwrap(args.config)>>,
                                            <<"write_config", Unwrap(args.config)>>>>
                    /\ disk' = [exists |-> TRUE, doc |-> DocOf(Unwrap(disk.old)),
                                old |-> None]
                    /\ pc' = "returned" /\ UNCHANGED status
               ELSE try_fail(res) /\ UNCHANGED disk
    /\ UNCHANGED <<notMain, todo, reconnect, ifname>>

\* main.rs:266-282: read the file in the current format, else in the old one
MainLoadConfig ==
    /\ pc = "logged"
    /\ ~args.migrate_config
    /\ IF ~IsSome(args.config)
       THEN pc' = "merge_args" /\ UNCHANGED <<events, status, file>>
       ELSE IF ~disk.exists
       THEN try_fail("Failed to open config file") /\ UNCHANGED file
       ELSE IF from_reader(disk.doc).ok
       THEN /\ Emit(<<"read_config", Unwrap(args.config), "v2">>)
            /\ file' = from_reader(disk.doc).file
            /\ pc' = "merge_file" /\ UNCHANGED status
       ELSE IF IsSome(disk.old)
       THEN /\ Emit(<<"read_config", Unwrap(args.config), "v1">>)
            /\ file' = Unwrap(disk.old)
            /\ pc' = "merge_file" /\ UNCHANGED status
       ELSE try_fail("Config file is neither version 2 nor version 1") /\ UNCHANGED file
    /\ UNCHANGED <<config, args, hist, ops, addr, listenRes, kaRes, devVars,
                   todo, reconnect, disk, ifname>>

\* main.rs:283
MainMergeFile ==
    /\ pc = "merge_file"
    /\ ops' = Append(ops, "file")
    /\ hist' = Append(hist, config)
    /\ IF merge_file_fails(file)
       THEN try_fail("Invalid listen") /\ UNCHANGED config
       ELSE /\ config' = merge_file(config, file)
            /\ Emit(<<"merge_file">>)
            /\ pc' = "merge_args" /\ UNCHANGED status
    /\ UNCHANGED <<file, args, addr, listenRes, kaRes, devVars, todo, reconnect,
                   disk, ifname>>

\* main.rs:285
MainMergeArgs ==
    /\ pc = "merge_args"
    /\ ops' = Append(ops, "args")
    /\ hist' = Append(hist, config)
    /\ IF merge_args_fails(args)
       THEN try_fail("Invalid listen") /\ UNCHANGED config
       ELSE /\ config' = merge_args(config, args)
            /\ Emit(<<"merge_args">>)
            /\ pc' = "dispatch" /\ UNCHANGED status
    /\ UNCHANGED <<file, args, addr, listenRes, kaRes, devVars, todo, reconnect,
                   disk, ifname>>

\* main.rs:287-290: the match has an arm for Tap and an arm for Tun
MainDispatch ==
    /\ pc = "dispatch"
    /\ CASE config.device_type = "Tap" ->
               Emit(<<"run", "Frame">>) /\ pc' = RunSteps[1]
         [] config.device_type = "Tun" ->
               Emit(<<"run", "Packet">>) /\ pc' = RunSteps[1]
         [] OTHER -> Emit(<<"no_arm", config.device_type>>) /\ pc' = "no_arm"
    /\ UNCHANGED <<notMain, status, todo, reconnect, disk, ifname>>

\* main.rs:136-145: open the interface, set the MTU (an error is only logged)
RunOpenDevice ==
    /\ pc = "setup_device"
    /\ \E r \in TunTapDevice_new(config.device_name, config.device_type,
                                  config.device_path) :
          CASE r.kind = "ok" ->
                  /\ ifname' = r.dev.ifname
                  /\ Emit(<<"open_device", ifname'>>)
                  /\ pc' = StepAfter(pc) /\ UNCHANGED status
            [] r.kind = "err" ->
                  try_fail("Failed to open virtual interface") /\ UNCHANGED ifname
            [] r.kind = "panic" ->
                  /\ Emit(<<"panic", "assertion failed: name.len() < IF_NAMESIZE">>)
                  /\ pc' = "panicked" /\ status' = "panicked"
                  /\ UNCHANGED ifname
    /\ UNCHANGED <<notMain, todo, reconnect, disk>>

\* main.rs:146-150: parse_ip_netmask, then device.configure, which the
\* operating system lets succeed or not
RunConfigure ==
    /\ pc = "configure"
    /\ IF IsSome(config.ip)
       THEN CASE parse_ip_netmask(Unwrap(config.ip)).kind = "err" ->
                    try_fail("Invalid ip address given")
              [] parse_ip_netmask(Unwrap(config.ip)).kind = "panic" ->
                    /\ Emit(<<"panic", "called Option::unwrap() on a None value">>)
                    /\ pc' = "panicked" /\ status' = "panicked"
              [] OTHER ->
                    \E ok \in BOOLEAN :
                       IF ok
                       THEN /\ Emit(<<"configure", ifname>>)
                            /\ pc' = StepAfter(pc) /\ UNCHANGED status
                       ELSE try_fail("Failed to configure device")
       ELSE pc' = StepAfter(pc) /\ UNCHANGED <<events, status>>
    /\ UNCHANGED <<notMain, todo, reconnect, disk, ifname>>

\* run_script (main.rs:107-119): the script's failure is only logged
ScriptResults == {"success", "error status", "not executed"}

\* setup_device() ending the process when the ifup script fails
RunIfupMut ==
    /\ pc = "ifup"
    /\ IF IsSome(config.ifup)
       THEN \E res \in ScriptResults :
               IF res = "success"
               THEN /\ Emit(<<"ifup", Unwrap(config.ifup), ifname, res>>)
                    /\ pc' = StepAfter(pc) /\ UNCHANGED status
               ELSE /\ Emit(<<"ifup", Unwrap(config.ifup), ifname, res>>)
                    /\ pc' = "exited" /\ status' = "exited"
       ELSE pc' = StepAfter(pc) /\ UNCHANGED <<events, status>>
    /\ UNCHANGED <<notMain, todo, reconnect, disk, ifname>>
\* main.rs:151-153
RunIfup ==
    /\ pc = "ifup"
    /\ IF IsSome(config.ifup)
       THEN \E res \in ScriptResults : Emit(<<"ifup", Unwrap(config.ifup), ifname, res>>)
       ELSE UNCHANGED events
    /\ pc' = StepAfter(pc)
    /\ UNCHANGED <<notMain, status, todo, reconnect, disk, ifname>>

\* main.rs:154-161
RunRpFilter ==
    /\ pc = "rp_filter"
    /\ IF config.fix_rp_filter
       THEN \E ok \in BOOLEAN :
               IF ok THEN /\ Emit(<<"fix_rp_filter", ifname>>)
                          /\ pc' = StepAfter(pc) /\ UNCHANGED status
               ELSE try_fail("Failed to change rp_filter settings")
       ELSE pc' = StepAfter(pc) /\ UNCHANGED <<events, status>>
    /\ UNCHANGED <<notMain, todo, reconnect, disk, ifname>>

\* main.rs:169
RunPortForwarding ==
    /\ pc = "port_forwarding"
    /\ IF config.port_forwarding
       THEN Emit(<<"port_forwarding">>)
       ELSE UNCHANGED events
    /\ pc' = StepAfter(pc)
    /\ UNCHANGED <<notMain, status, todo, reconnect, disk, ifname>>

\* run() only logging a stats file that cannot be created
RunStatsFileMut ==
    /\ pc = "stats_file"
    /\ IF IsSome(config.stats_file)
       THEN \E res \in {"ok", "Failed to create stats file"} :
               IF res = "ok"
               THEN Emit(<<"create_stats", Unwrap(config.stats_file)>>)
               ELSE Emit(<<"fail", res>>)
       ELSE UNCHANGED events
    /\ pc' = StepAfter(pc)
    /\ UNCHANGED <<notMain, status, todo, reconnect, disk, ifname>>
\* main.rs:170-184
RunStatsFile ==
    /\ pc = "stats_file"
    /\ IF IsSome(config.stats_file)
       THEN \E res \in {"ok", "Failed to remove file", "Failed to create stats file",
                        "Failed to set permissions on stats file"} :
               IF res = "ok"
               THEN /\ Emit(<<"create_stats", Unwrap(config.stats_file)>>)
                    /\ pc' = StepAfter(pc) /\ UNCHANGED status
               ELSE try_fail(res)
       ELSE pc' = StepAfter(pc) /\ UNCHANGED <<events, status>>
    /\ UNCHANGED <<notMain, todo, reconnect, disk, ifname>>

\* main.rs:185-186: GenericCloud::new takes the device and binds the socket
RunCloudNew ==
    /\ pc = "cloud_new"
    /\ Emit(<<"cloud_new", ifname>>)
    /\ todo' = config.peers
    /\ pc' = StepAfter(pc)
    /\ UNCHANGED <<notMain, status, reconnect, disk, ifname>>

\* main.rs:187-190: one turn of `for addr in config.peers`
RunConnect ==
    /\ pc = "connect"
    /\ todo # <<>>
    /\ \E ok \in BOOLEAN :
          IF ok
          THEN /\ Emit(<<"connect", Head(todo)>>)
               /\ reconnect' = Append(reconnect, Head(todo))
               /\ todo' = Tail(todo)
               /\ UNCHANGED <<pc, status>>
          ELSE /\ events' = events \o <<<<"connect_failed", Head(todo)>>,
                                       <<"fail", "Failed to send message">>>>
               /\ pc' = "exited"
               /\ status' = "exited"
               /\ UNCHANGED <<todo, reconnect>>
    /\ UNCHANGED <<notMain, disk, ifname>>

\* the loop over config.peers is finished
RunPeersDone ==
    /\ pc = "connect"
    /\ todo = <<>>
    /\ pc' = StepAfter(pc)
    /\ UNCHANGED <<notMain, status, events, todo, reconnect, disk, ifname>>

\* main.rs:191-216
RunPrivileges ==
    /\ pc = "privileges"
    /\ IF config.daemonize
       THEN \E ok \in BOOLEAN :
               IF ok THEN /\ Emit(<<"daemonize">>)
                          /\ pc' = StepAfter(pc) /\ UNCHANGED status
               ELSE try_fail("Failed to daemonize")
       ELSE IF IsSome(config.user) \/ IsSome(config.group)
       THEN \E ok \in BOOLEAN :
               IF ok THEN /\ Emit(<<"drop_privileges">>)
                          /\ pc' = StepAfter(pc) /\ UNCHANGED status
               ELSE try_fail("Failed to drop privileges")
       ELSE pc' = StepAfter(pc) /\ UNCHANGED <<events, status>>
    /\ UNCHANGED <<notMain, todo, reconnect, disk, ifname>>

\* main.rs:217: cloud.run() is entered
RunLoop ==
    /\ pc = "loop"
    /\ Emit(<<"run_loop">>)
    /\ pc' = StepAfter(pc)
    /\ UNCHANGED <<notMain, status, todo, reconnect, disk, ifname>>

\* main.rs:217: cloud.run() returns
RunLoopReturns ==
    /\ pc = "running"
    /\ Emit(<<"loop_returned">>)
    /\ pc' = StepAfter(pc)
    /\ UNCHANGED <<notMain, status, todo, reconnect, disk, ifname>>

\* run() handing the configured device name to the ifdown script, and doing
\* so whether or not the loop was entered
RunIfdownMut ==
    /\ pc \in {"ifdown", "cloud_new"}
    /\ IF IsSome(config.ifdown)
       THEN \E res \in ScriptResults :
               Emit(<<"ifdown", Unwrap(config.ifdown), config.device_name, res>>)
       ELSE UNCHANGED events
    /\ pc' = "returned"
    /\ UNCHANGED <<notMain, status, todo, reconnect, disk, ifname>>
\* main.rs:218-220
RunIfdown ==
    /\ pc = "ifdown"
    /\ IF IsSome(config.ifdown)
       THEN \E res \in ScriptResults :
               Emit(<<"ifdown", Unwrap(config.ifdown), ifname, res>>)
       ELSE UNCHANGED events
    /\ pc' = StepAfter(pc)
    /\ UNCHANGED <<notMain, status, todo, reconnect, disk, ifname>>

NextMain ==
    \/ MainVersion \/ MainGenkey \/ MainOpenLog \/ MainMigrate
    \/ MainLoadConfig \/ MainMergeFile \/ MainMergeArgs \/ MainDispatch
    \/ RunOpenDevice \/ RunConfigure \/ RunIfup \/ RunRpFilter
    \/ RunPortForwarding \/ RunStatsFile \/ RunCloudNew \/ RunConnect
    \/ RunPeersDone \/ RunPrivileges \/ RunLoop \/ RunLoopReturns \/ RunIfdown

SpecMain == InitMain /\ [][NextMain]_vars

----------------------------------------------------------------------------
(* Reading the options back, for the statements about the merges *)

\* the Config field of an option
CfgGet(c, o) ==
    CASE o = "device_type" -> c.device_type
      [] o = "device_name" -> c.device_name
      [] o = "device_path" -> c.device_path
      [] o = "fix_rp_filter" -> c.fix_rp_filter
      [] o = "ip" -> c.ip
      [] o = "ifup" -> c.ifup
      [] o = "ifdown" -> c.ifdown
      [] o = "listen" -> c.listen
      [] o = "peers" -> c.peers
      [] o = "peer_timeout" -> c.peer_timeout
      [] o = "keepalive" -> c.keepalive
      [] o = "beacon_store" -> c.beacon_store
      [] o = "beacon_load" -> c.beacon_load
      [] o = "beacon_interval" -> c.beacon_interval
      [] o = "beacon_password" -> c.beacon_password
      [] o = "mode" -> c.mode
      [] o = "switch_timeout" -> c.switch_timeout
      [] o = "claims" -> c.claims
      [] o = "auto_claim" -> c.auto_claim
      [] o = "port_forwarding" -> c.port_forwarding
      [] o = "daemonize" -> c.daemonize
      [] o = "pid_file" -> c.pid_file
      [] o = "stats_file" -> c.stats_file
      [] o = "statsd_server" -> c.statsd_server
      [] o = "statsd_prefix" -> c.statsd_prefix
      [] o = "user" -> c.user
      [] o = "group" -> c.group
      [] o = "password" -> c.crypto.password
      [] o = "public_key" -> c.crypto.public_key
      [] o = "private_key" -> c.crypto.private_key
      [] o = "trusted_keys" -> c.crypto.trusted_keys
      [] o = "algorithms" -> c.crypto.algorithms

\* what a file gives for a single-valued or boolean option, as an Option
FileOpt(f, o) ==
    CASE o = "device_type" -> IF IsSome(f.device) THEN Unwrap(f.device).type_ ELSE None
      [] o = "device_name" -> IF IsSome(f.device) THEN Unwrap(f.device).name ELSE None
      [] o = "device_path" -> IF IsSome(f.device) THEN Unwrap(f.device).path ELSE None
      [] o = "fix_rp_filter" ->
             IF IsSome(f.device) THEN Unwrap(f.device).fix_rp_filter ELSE None
      [] o = "ip" -> f.ip
      [] o = "ifup" -> f.ifup
      [] o = "ifdown" -> f.ifdown
      [] o = "listen" -> f.listen
      [] o = "peer_timeout" -> f.peer_timeout
      [] o = "keepalive" -> f.keepalive
      [] o = "beacon_store" -> IF IsSome(f.beacon) THEN Unwrap(f.beacon).store ELSE None
      [] o = "beacon_load" -> IF IsSome(f.beacon) THEN Unwrap(f.beacon).load ELSE None
      [] o = "beacon_interval" ->
             IF IsSome(f.beacon) THEN Unwrap(f.beacon).interval ELSE None
      [] o = "beacon_password" ->
             IF IsSome(f.beacon) THEN Unwrap(f.beacon).password ELSE None
      [] o = "mode" -> f.mode
      [] o = "switch_timeout" -> f.switch_timeout
      [] o = "auto_claim" -> f.auto_claim
      [] o = "port_forwarding" -> f.port_forwarding
      [] o = "daemonize" -> None
      [] o = "pid_file" -> f.pid_file
      [] o = "stats_file" -> f.stats_file
      [] o = "statsd_server" -> IF IsSome(f.statsd) THEN Unwrap(f.statsd).server ELSE None
      [] o = "statsd_prefix" -> IF IsSome(f.statsd) THEN Unwrap(f.statsd).prefix ELSE None
      [] o = "user" -> f.user
      [] o = "group" -> f.group
      [] o = "password" -> f.crypto.password
      [] o = "public_key" -> f.crypto.public_key
      [] o = "private_key" -> f.crypto.private_key

\* what the flags give for a single-valued option, as an Option
ArgOpt(a, o) ==
    CASE o = "device_type" -> a.type_
      [] o = "device_name" -> a.device
      [] o = "device_path" -> a.device_path
      [] o = "ip" -> a.ip
      [] o = "ifup" -> a.ifup
      [] o = "ifdown" -> a.ifdown
      [] o = "listen" -> a.listen
      [] o = "peer_timeout" -> a.peer_timeout
      [] o = "keepalive" -> a.keepalive
      [] o = "beacon_store" -> a.beacon_store
      [] o = "beacon_load" -> a.beacon_load
      [] o = "beacon_interval" -> a.beacon_interval
      [] o = "beacon_password" -> a.beacon_password
      [] o = "mode" -> a.mode
      [] o = "switch_timeout" -> a.switch_timeout
      [] o = "pid_file" -> a.pid_file
      [] o = "stats_file" -> a.stats_file
      [] o = "statsd_server" -> a.statsd_server
      [] o = "statsd_prefix" -> a.statsd_prefix
      [] o = "user" -> a.user
      [] o = "group" -> a.group
      [] o = "password" -> a.password
      [] o = "public_key" -> a.public_key
      [] o = "private_key" -> a.private_key

\* the flag that moves a boolean option
ArgFlag(a, o) ==
    CASE o = "fix_rp_filter" -> a.fix_rp_filter
      [] o = "auto_claim" -> a.no_auto_claim
      [] o = "port_forwarding" -> a.no_port_forwarding
      [] o = "daemonize" -> a.daemon

\* the entries a file / the flags give for a list option
FileList(f, o) ==
    CASE o = "peers" -> IF IsSome(f.peers) THEN Unwrap(f.peers) ELSE <<>>
      [] o = "claims" -> IF IsSome(f.claims) THEN Unwrap(f.claims) ELSE <<>>
      [] o = "trusted_keys" -> f.crypto.trusted_keys
      [] o = "algorithms" -> f.crypto.algorithms
ArgList(a, o) ==
    CASE o = "peers" -> a.peers
      [] o = "claims" -> a.claims
      [] o = "trusted_keys" -> a.trusted_keys
      [] o = "algorithms" -> a.algorithms

\* the options whose Config field is itself an Option
OptionalFields ==
    {"device_path", "ip", "ifup", "ifdown", "keepalive", "beacon_store",
     "beacon_load", "beacon_password", "pid_file", "stats_file",
     "statsd_server", "statsd_prefix", "user", "group", "password",
     "public_key", "private_key"}

\* the Config field holding the given value v of option o
Held(o, v) ==
    IF o = "listen" THEN parse_listen(v).addr
    ELSE IF o \in OptionalFields THEN Some(v)
    ELSE v

FileAbsent(f, o) ==
    IF o \in ListOptions THEN FileList(f, o) = <<>> ELSE ~IsSome(FileOpt(f, o))
ArgsAbsent(a, o) ==
    IF o \in ListOptions THEN ArgList(a, o) = <<>>
    ELSE IF o \in BoolOptions THEN ~ArgFlag(a, o)
    ELSE ~IsSome(ArgOpt(a, o))

\* the Config after the i-th merge, and before it
After(i) == IF i = Len(ops) THEN config ELSE hist[i + 1]
Before(i) == hist[i]
Completed == IF status = "ok" THEN Len(ops) ELSE Len(ops) - 1

----------------------------------------------------------------------------
(* C1: after Config::default(), merge_file(f), merge_args(a) - or, without *)
(* a config file, Config::default(), merge_args(a) - every single-valued   *)
(* option holds the flag's value if the flag is given, otherwise the       *)
(* file's value if the file gives one, otherwise the default.              *)

C1_FileSeen == IF ops # <<>> /\ ops[1] = "file" THEN file ELSE EmptyFile
C1_Expected(o) ==
    IF IsSome(ArgOpt(args, o)) THEN Held(o, Unwrap(ArgOpt(args, o)))
    ELSE IF IsSome(FileOpt(C1_FileSeen, o)) THEN Held(o, Unwrap(FileOpt(C1_FileSeen, o)))
    ELSE CfgGet(Default, o)
C1_Merged == status = "ok" /\ (ops = <<"file", "args">> \/ ops = <<"args">>)
C1_Precedence ==
    C1_Merged => \A o \in SingleOptions : CfgGet(config, o) = C1_Expected(o)
\* every option given by the file, one of them also by a flag with
\* another value
C1_Witness ==
    /\ status = "ok" /\ ops = <<"file", "args">>
    /\ \E o \in SingleOptions :
          /\ IsSome(ArgOpt(args, o)) /\ IsSome(FileOpt(file, o))
          /\ ArgOpt(args, o) # FileOpt(file, o)
          /\ CfgGet(config, o) = Held(o, Unwrap(ArgOpt(args, o)))
          /\ \E o2 \in SingleOptions :
                /\ ~IsSome(ArgOpt(args, o2)) /\ IsSome(FileOpt(file, o2))
                /\ CfgGet(config, o2) # CfgGet(Default, o2)

(* C2: a merge changes only the fields whose option the file / the flags   *)
(* give: every field whose option is absent (None, unset flag, empty list) *)
(* is the same after the merge as before, and a merge of an all-absent     *)
(* file or flag set leaves the whole Config unchanged.                     *)

C2_Absent(i, o) ==
    IF ops[i] = "file" THEN FileAbsent(file, o) ELSE ArgsAbsent(args, o)
C2_Frame ==
    \A i \in 1..Completed :
        /\ \A o \in AllOptions :
              C2_Absent(i, o) => CfgGet(After(i), o) = CfgGet(Before(i), o)
        /\ (\A o \in AllOptions : C2_Absent(i, o)) => After(i) = Before(i)
\* a merge of a file giving one option only, into a Config that differs
\* from the default in every option
C2_Witness ==
    /\ status = "ok" /\ Len(ops) >= 2 /\ ops[Len(ops)] = "file"
    /\ \E o \in AllOptions :
          /\ ~FileAbsent(file, o)
          /\ \A o2 \in AllOptions \ {o} : FileAbsent(file, o2)
          /\ \A o2 \in AllOptions \ {o, "daemonize"} :
                CfgGet(hist[Len(hist)], o2) # CfgGet(Default, o2)
          /\ config # hist[Len(hist)]

(* C3 as stated: applying the same merge a second time yields a Config     *)
(* equal to the one after the first application, lists included.           *)

C3_Repeated(i) == i >= 2 /\ i <= Completed /\ ops[i] = ops[i - 1]
C3_Idempotent ==
    \A i \in 1..Len(ops) : C3_Repeated(i) => After(i) = Before(i)

(* C3 as amended: applying the same merge a second time leaves every field *)
(* other than peers, claims and trusted_keys as it was after the first     *)
(* application, and each of these three lists grows by the file's / the    *)
(* flags' entries once more; the second application is without effect      *)
(* exactly when the file / the flags give no entry of these lists.         *)

C3_Entries(i, o) == IF ops[i] = "file" THEN FileList(file, o) ELSE ArgList(args, o)
C3_IdempotentButLists ==
    \A i \in 1..Len(ops) : C3_Repeated(i) =>
        /\ \A o \in AllOptions \ AppendOptions :
              CfgGet(After(i), o) = CfgGet(Before(i), o)
        /\ \A o \in AppendOptions :
              CfgGet(After(i), o) = CfgGet(Before(i), o) \o C3_Entries(i, o)
        /\ (After(i) = Before(i)) <=> (\A o \in AppendOptions : C3_Entries(i, o) = <<>>)
\* the same file merged twice, giving peers and single-valued options
C3_Witness ==
    /\ status = "ok" /\ ops = <<"file", "file">>
    /\ FileList(file, "peers") # <<>>
    /\ IsSome(file.ifup) /\ IsSome(file.listen)
    /\ Len(config.peers) = 2 * Len(FileList(file, "peers"))

(* C4: peers, claims and trusted_keys accumulate: after merge_file(f) then *)
(* merge_args(a) each list is the previous list, then the file's entries,  *)
(* then the flags' entries, nothing dropped, reordered or de-duplicated.   *)

C4_Accumulate ==
    \A i \in 2..Completed :
        (ops[i - 1] = "file" /\ ops[i] = "args") =>
            \A o \in AppendOptions :
                CfgGet(After(i), o) =
                    CfgGet(Before(i - 1), o) \o FileList(file, o) \o ArgList(args, o)
\* a non-empty previous list, and entries from the file and from the flags
\* with a value in common
C4_Witness ==
    /\ status = "ok" /\ Len(ops) = 3 /\ ops[2] = "file" /\ ops[3] = "args"
    /\ hist[2].peers # <<>>
    /\ \E i \in 1..Len(FileList(file, "peers")), j \in 1..Len(args.peers) :
          FileList(file, "peers")[i] = args.peers[j]
    /\ Len(config.peers) = Len(hist[2].peers) + Len(FileList(file, "peers")) + Len(args.peers)
    /\ config.claims # <<>> /\ config.crypto.trusted_keys # <<>>

----------------------------------------------------------------------------
(* C5: with keepalive not configured and peer_timeout >= 120, get_keepalive *)
(* returns max(peer_timeout / 2 - 60, 1) with integer division, for every  *)
(* peer_timeout a Duration can hold (300 gives 90, 120 and 121 give 1),    *)
(* and the result is strictly smaller than peer_timeout.                   *)

\* the value of a Duration below 2^31
DurNum(d) == d[1] * Limb + d[2]
IntMax(a, b) == IF a >= b THEN a ELSE b
C5_Case ==
    /\ kaRes # IdleKeepalive
    /\ ~IsSome(config.keepalive)
    /\ ~DurLess(config.peer_timeout, U32(120))
C5_DefaultKeepalive ==
    C5_Case =>
        /\ kaRes.kind = "value"
        /\ kaRes.val[1] < Limb \div 2
        /\ DurNum(kaRes.val) = IntMax(DurHalf(config.peer_timeout) - 60, 1)
        /\ DurLess(kaRes.val, config.peer_timeout)
        /\ config.peer_timeout = U32(300) => kaRes.val = U32(90)
        /\ config.peer_timeout \in {U32(120), U32(121)} => kaRes.val = U32(1)
        /\ config.peer_timeout = DurationMax => kaRes.val = <<Limb \div 2 - 1, Limb - 61>>
\* the largest Duration, given by the flag, and the clamped case 121
C5_Witness ==
    /\ C5_Case
    /\ ops # <<>>
    /\ config.peer_timeout \in {DurationMax, U32(121)}
    /\ kaRes.kind = "value"

(* C6: with keepalive not configured and 0 <= peer_timeout < 120,          *)
(* get_keepalive is exactly 1 second: never 0, never a wrapped-around      *)
(* large value, never a fault on the subtraction.                          *)

C6_Case ==
    /\ kaRes # IdleKeepalive
    /\ ~IsSome(config.keepalive)
    /\ DurLess(config.peer_timeout, U32(120))
C6_Clamped == C6_Case => kaRes = [kind |-> "value", val |-> U32(1)]

(* C7: listen takes three forms.  "*:PORT" and "PORT" both give [::] with  *)
(* that port, hence equal results for equal ports; any other text with a   *)
(* ':' is a full socket address whose ip and port are kept as written; a   *)
(* text in none of the forms ends the process and no Config comes out of   *)
(* the merge.                                                              *)

\* a decimal u16 numeral, read digit by digit from the right
PortText(t) ==
    LET body == IF t # <<>> /\ Head(t) = "+" THEN Tail(t) ELSE t
        nz == {i \in 1..Len(body) : body[i] # "0"}
        first == IF nz = {} THEN Len(body) ELSE CHOOSE i \in nz : \A j \in nz : i <= j
        sig == SubSeq(body, first, Len(body))
        weight == <<1, 10, 100, 1000, 10000>>
        value == LET RECURSIVE Sum(_)
                     Sum(i) == IF i = 0 THEN 0
                               ELSE HexVal(sig[Len(sig) + 1 - i]) * weight[i] + Sum(i - 1)
                 IN Sum(Len(sig))
    IN /\ body # <<>>
       /\ \A i \in 1..Len(body) : (\E d \in 1..10 : DigitChars[d] = body[i])
       /\ Len(sig) <= 5
       /\ value <= 65535
PortValue(t) ==
    LET body == IF Head(t) = "+" THEN Tail(t) ELSE t
        weight == <<1, 10, 100, 1000, 10000>>
        n == Len(body)
        w(i) == IF n + 1 - i <= 5 THEN weight[n + 1 - i] ELSE 0
        RECURSIVE Sum(_)
        Sum(i) == IF i = 0 THEN 0 ELSE HexVal(body[i]) * w(i) + Sum(i - 1)
    IN Sum(n)
C7_Star == StartsWith(addr, <<"*", ":">>)
C7_Rest == SubSeq(addr, 3, Len(addr))
C7_Wildcard(port) == [ip |-> [v |-> 6, segs |-> <<0, 0, 0, 0, 0, 0, 0, 0>>], port |-> port]
C7_Expected ==
    IF C7_Star
    THEN IF PortText(C7_Rest)
         THEN [ok |-> TRUE, addr |-> C7_Wildcard(PortValue(C7_Rest))] ELSE [ok |-> FALSE]
    ELSE IF Contains(addr, ":")
    THEN IF \E v \in ValidFull : v.text = addr
         THEN LET v == CHOOSE v \in ValidFull : v.text = addr
              IN [ok |-> TRUE, addr |-> [ip |-> v.ip, port |-> v.port]]
         ELSE [ok |-> FALSE]
    ELSE IF PortText(addr)
         THEN [ok |-> TRUE, addr |-> C7_Wildcard(PortValue(addr))] ELSE [ok |-> FALSE]
C7_ListenForms ==
    /\ IsSome(listenRes) =>
          /\ Unwrap(listenRes).ok = C7_Expected.ok
          /\ C7_Expected.ok => Unwrap(listenRes).addr = C7_Expected.addr
          /\ (C7_Star /\ ~Contains(C7_Rest, ":")) =>
                Unwrap(listenRes) = parse_listen(C7_Rest)
    /\ \A i \in 1..Len(ops) :
          IF C7_Expected.ok
          THEN i <= Completed /\ After(i).listen = C7_Expected.addr
          ELSE i = 1 /\ status = "exited" /\ config = Default
\* a full IPv4 address kept as written by the flags' merge; the other two
\* forms and a fatal text are reached as well
C7_Witness ==
    /\ IsSome(listenRes) /\ Unwrap(listenRes).ok
    /\ addr = <<"1", "2", "7", ".", "0", ".", "0", ".", "1", ":", "8", "0">>
    /\ ops = <<"args">>
    /\ config.listen = [ip |-> [v |-> 4, segs |-> <<127, 0, 0, 1>>], port |-> 80]

----------------------------------------------------------------------------
(* Statements about the start-up sequence *)

Steps == {events[i][1] : i \in 1..Len(events)}
Happened(step) == step \in Steps

(* C8 as stated: start-up goes in the order open the local interface, bind *)
(* the UDP socket (construct the runtime), request port forwarding,        *)
(* contact every configured peer, enter the poll loop; no later step of    *)
(* the list happens before an earlier one.                                 *)

C8_Listed == {"open_device", "cloud_new", "port_forwarding", "connect", "run_loop"}
C8_SpecRank(step) ==
    CASE step = "open_device" -> 1
      [] step = "cloud_new" -> 2
      [] step = "port_forwarding" -> 3
      [] step = "connect" -> 4
      [] step = "run_loop" -> 5
C8_StartupOrder ==
    \A i \in 1..Len(events), j \in 1..Len(events) :
        (i < j /\ events[i][1] \in C8_Listed /\ events[j][1] \in C8_Listed)
            => C8_SpecRank(events[i][1]) <= C8_SpecRank(events[j][1])

(* C8 as amended: start-up goes in the order open the local interface,     *)
(* request port forwarding (when enabled), construct the runtime (bind the *)
(* UDP socket), contact every configured peer, enter the poll loop; no     *)
(* later step of the list happens before an earlier one.                   *)

C8_CodeRank(step) ==
    CASE step = "open_device" -> 1
      [] step = "port_forwarding" -> 2
      [] step = "cloud_new" -> 3
      [] step = "connect" -> 4
      [] step = "run_loop" -> 5
C8_StartupOrderAmended ==
    /\ \A i \in 1..Len(events), j \in 1..Len(events) :
          (i < j /\ events[i][1] \in C8_Listed /\ events[j][1] \in C8_Listed)
              => C8_CodeRank(events[i][1]) <= C8_CodeRank(events[j][1])
    /\ Happened("run_loop") =>
          /\ Happened("open_device") /\ Happened("cloud_new")
          /\ Happened("port_forwarding") <=> config.port_forwarding
          /\ \A k \in 1..Len(config.peers) :
                \E i \in 1..Len(events) : events[i] = <<"connect", config.peers[k]>>
\* the loop is entered after port forwarding was requested and several
\* peers were contacted
C8_Witness ==
    /\ Happened("run_loop") /\ Happened("port_forwarding")
    /\ Len(config.peers) >= 2
    /\ pc = "running"

(* C9: every configured peer address is enqueued for reconnection before   *)
(* the poll loop is entered, and a failed initial connect to one           *)
(* configured peer neither ends the process nor keeps the remaining        *)
(* configured peers from being registered.                                 *)

C9_PeersEnqueued ==
    /\ Happened("run_loop") => reconnect = config.peers
    /\ Happened("connect_failed") => (pc # "exited" /\ status = "ok")

(* C10: with --version, --genkey or --migrate-config, main ends without    *)
(* opening the local interface, merging a Config, constructing the runtime *)
(* or entering the poll loop; --version wins over --genkey and both over   *)
(* --migrate-config, and neither of the two opens the log file or touches  *)
(* the config file.                                                        *)

C10_ShortCircuit ==
    /\ (args.version \/ args.genkey \/ args.migrate_config) =>
          /\ Steps \cap {"run", "open_device", "merge_file", "merge_args",
                         "read_config", "cloud_new", "run_loop"} = {}
          /\ ops = <<>> /\ config = Default
          /\ pc \in {"main", "logged", "returned", "exited"}
    /\ args.version =>
          /\ events \in {<<>>, <<<<"print_version">>>>}
          /\ pc \in {"main", "returned"}
    /\ (~args.version /\ args.genkey) =>
          /\ events \in {<<>>, <<<<"genkey">>>>}
          /\ pc \in {"main", "returned"}
    /\ (args.version \/ args.genkey) =>
          Steps \cap {"open_log", "open_config", "rename_config", "write_config"} = {}
\* all three flags at once, with a log file and a convertible config file
C10_Witness ==
    /\ args.version /\ args.genkey /\ args.migrate_config
    /\ IsSome(args.log_file) /\ disk.exists /\ IsSome(disk.old)
    /\ pc = "returned"
    /\ events = <<<<"print_version">>>>

\* the positions of the events of one step
At(step) == {i \in 1..Len(events) : events[i][1] = step}

(* C11: the ifdown script is run only when it is configured and the poll   *)
(* loop has been entered and has returned: then exactly once, after the    *)
(* loop's return, with IFNAME the name of the runtime's interface; never   *)
(* before or during the loop, and never in a run that ends during setup,   *)
(* whether or not ifup has run.                                            *)

C11_IfdownAfterLoop ==
    /\ Cardinality(At("ifdown")) <= 1
    /\ \A i \in At("ifdown") :
          /\ IsSome(config.ifdown)
          /\ events[i][2] = Unwrap(config.ifdown)
          /\ \E k \in At("open_device") : events[i][3] = events[k][2]
          /\ \E j \in At("loop_returned") : j < i /\ \E k \in At("run_loop") : k < j
    /\ (Happened("loop_returned") /\ pc # "ifdown" /\ IsSome(config.ifdown)) =>
          At("ifdown") # {}
    /\ (pc \in {"loop", "running", "ifdown"} \/ status = "exited") => At("ifdown") = {}
\* ifdown configured, the kernel picked the name, the loop returned
C11_Witness ==
    /\ pc = "returned"
    /\ Happened("loop_returned")
    /\ ifname = "vpncloud1"
    /\ \E i \in At("ifdown") : events[i][3] = "vpncloud1" /\ i = Len(events)

(* C12: a failure of opening the interface, of reading the `ip` value, of  *)
(* configuring the address, of creating the stats file, or of parsing the  *)
(* config file in both formats ends the process during setup: it is the    *)
(* last thing the process does, and the poll loop is not entered in that   *)
(* run.                                                                    *)

C12_Fatal ==
    {"Failed to open virtual interface", "Invalid ip address given",
     "Failed to configure device", "Failed to create stats file",
     "Config file is neither version 2 nor version 1"}
C12_SetupFatal ==
    \A i \in At("fail") :
       events[i][2] \in C12_Fatal =>
          /\ i = Len(events)
          /\ pc = "exited" /\ status = "exited"
          /\ ~Happened("run_loop") /\ ~Happened("cloud_new")
\* the stats file could not be created, after the interface was opened
C12_Witness ==
    /\ Happened("open_device")
    /\ events[Len(events)] = <<"fail", "Failed to create stats file">>
    /\ pc = "exited"

(* C13: a configured ifup script is run exactly once, in one step that     *)
(* ends with the script, after the interface is opened and its address     *)
(* configured and before the runtime is constructed or the loop entered,   *)
(* with IFNAME the name the operating system returned; a script that ends  *)
(* with an error or cannot be started is only logged, and start-up goes on *)
(* to the poll loop.                                                       *)

C13_IfupOnce ==
    /\ Cardinality(At("ifup")) <= 1
    /\ \A i \in At("ifup") :
          /\ IsSome(config.ifup)
          /\ events[i][2] = Unwrap(config.ifup)
          /\ \E k \in At("open_device") : k < i /\ events[i][3] = events[k][2]
          /\ IsSome(config.ip) => \E k \in At("configure") : k < i
          /\ \A j \in At("cloud_new") \cup At("run_loop") \cup At("connect") : i < j
          /\ i = Len(events) => (status = "ok" /\ pc # "exited")
    /\ (IsSome(config.ifup) /\ (Happened("cloud_new") \/ Happened("run_loop"))) =>
          At("ifup") # {}
\* the script could not be started; the loop is entered all the same
C13_Witness ==
    /\ Happened("run_loop")
    /\ \E i \in At("ifup") :
          events[i][4] = "not executed" /\ events[i][3] \in {"vpncloud0", "vpncloud1"}

(* C14: a config file with a key that is not recognised, at the top level  *)
(* or inside the device, beacon or statsd section, is never read in the    *)
(* current format; what main merges from it is then the conversion of the  *)
(* file read in the old format, and if the file is not valid in the old    *)
(* format either, main exits and nothing of the file is merged.            *)

C14_Extra(m) == DOMAIN m \cap {"network-id", "mtu"} # {}
C14_HasUnknown ==
    /\ disk.exists
    /\ \/ C14_Extra(disk.doc)
       \/ \E k \in {"device", "beacon", "statsd"} \cap DOMAIN disk.doc :
             C14_Extra(disk.doc[k])
C14_UnknownKeyRefused ==
    C14_HasUnknown =>
       /\ \A i \in At("read_config") : events[i][3] = "v1" /\ IsSome(disk.old)
       /\ ops # <<>> =>
             /\ IsSome(disk.old) /\ file = Unwrap(disk.old)
             /\ ops[1] = "file" /\ hist[1] = Default
       /\ ~IsSome(disk.old) =>
             /\ ops = <<>> /\ config = Default /\ file = EmptyFile
             /\ (pc \notin {"main", "logged"} /\ IsSome(args.config)
                   /\ ~args.version /\ ~args.genkey /\ ~args.migrate_config
                   /\ <<"fail", "Failed to open logfile">> # events[Len(events)]) =>
                   /\ pc = "exited"
                   /\ events[Len(events)] =
                         <<"fail", "Config file is neither version 2 nor version 1">>
\* an unknown key in a section of a file that is valid in the old format
C14_Witness ==
    /\ C14_HasUnknown /\ ~C14_Extra(disk.doc)
    /\ Happened("merge_file") /\ Happened("run_loop")
    /\ file = OldFile
\* an unknown top-level key in a file that is not valid in the old format
C14_WitnessExit ==
    /\ C14_HasUnknown /\ C14_Extra(disk.doc) /\ ~IsSome(disk.old)
    /\ pc = "exited" /\ ops = <<>>
    /\ Happened("fail")

----------------------------------------------------------------------------
(* Statements about the device *)

(* C15: TunTapDevice::new for a tun or tap device panics only if the       *)
(* interface name is longer than 31 bytes: with a name of at most 31 bytes *)
(* the length assertion never fails.                                       *)

C15_AcceptsUpTo31 ==
    \A i \in 1..Len(calls) :
       (calls[i].op = "new" /\ config.device_type \in {"Tun", "Tap"}
          /\ calls[i].res = "panic") =>
          Len(config.device_name) > 31
\* what the code does: the assertion fails from IF_NAMESIZE bytes on
C15_PanicsFrom16 ==
    /\ calls # <<>> /\ calls[1].res = "panic"
    /\ config.device_type = "Tun"
    /\ Len(config.device_name) = 16

(* C17: a write(data, start) that succeeds emits exactly data[start..] as  *)
(* one packet, so that no byte before start is part of it; on a MockDevice *)
(* pop_outbound returns the packets written in the order of the writes,    *)
(* each one once, and None when none is left.                              *)

C17_IsWrite(c) == c.op = "write" /\ c.res = "ok"
C17_IsPop(c) == c.op = "pop_outbound" /\ c.res # None
C17_Tails(cs) == [i \in 1..Len(cs) |-> SubSeq(cs[i].data, cs[i].start + 1, Len(cs[i].data))]
C17_Written(n) == C17_Tails(SelectSeq(SubSeq(calls, 1, n), C17_IsWrite))
C17_Popped(n) ==
    LET ps == SelectSeq(SubSeq(calls, 1, n), C17_IsPop)
    IN  [i \in 1..Len(ps) |-> Unwrap(ps[i].res)]
C17_WriteEmitsTail ==
    /\ device.impl = "TunTapDevice" =>
          Transmitted(device, target) = C17_Written(Len(calls))
    /\ device.impl = "MockDevice" =>
          /\ C17_Popped(Len(calls)) \o outbound = C17_Written(Len(calls))
          /\ \A i \in 1..Len(calls) :
                calls[i].op = "pop_outbound" =>
                   LET w == C17_Written(i - 1)
                       p == Len(C17_Popped(i - 1))
                   IN  calls[i].res = IF p < Len(w) THEN Some(w[p + 1]) ELSE None
\* two writes behind headroom on a MockDevice, the first one popped
C17_Witness ==
    /\ device.impl = "MockDevice" /\ Len(calls) = 4
    /\ calls[2].op = "write" /\ calls[2].start = 4
    /\ calls[3].op = "write" /\ calls[3].start = 5
    /\ calls[4].op = "pop_outbound" /\ calls[4].res = Some(<<69, 1, 2>>)
    /\ outbound = <<<<96, 7>>>>
\* a write on a Tun device of the BSD family, the header in front of the packet
C17_WitnessTun ==
    /\ device.impl = "TunTapDevice" /\ target = "bsd" /\ device.type_ = "Tun"
    /\ Len(device.fd) = 2
    /\ device.fd[1] = <<0, 0, 8, 0, 69, 1, 2>>

(* C16: once the flags are merged, main starts the runtime for every       *)
(* device type the merged Config can hold, the payload protocol following  *)
(* from the device type alone: Ethernet frames for tap, IP packets for     *)
(* tun, and a runtime for dummy as well.                                   *)

C16_DispatchByType ==
    (Happened("merge_args") /\ pc # "dispatch") =>
       /\ Cardinality(At("run")) = 1
       /\ \A i \in At("run") :
             /\ config.device_type = "Tap" => events[i][2] = "Frame"
             /\ config.device_type = "Tun" => events[i][2] = "Packet"

(* C18: for an IPv4 address followed by '/' and a prefix length from 0 to  *)
(* 32, parse_ip_netmask returns the address and the netmask whose top      *)
(* prefix-length bits are 1 (0 gives 0.0.0.0, 24 gives 255.255.255.0, 32   *)
(* gives 255.255.255.255) and does not panic; without a '/' the prefix     *)
(* length is 24; a prefix length above 32 or not a number, or a text that  *)
(* is not an IPv4 address, gives Err.                                      *)

C18_Bits(p, k) == IF p <= 8 * (k - 1) THEN 0 ELSE IF p >= 8 * k THEN 8 ELSE p - 8 * (k - 1)
C18_Mask(p) == [v |-> 4, segs |-> [k \in 1..4 |-> 256 - 2 ^ (8 - C18_Bits(p, k))]]
C18_Netmask ==
    maskRes # None =>
       /\ \A ip \in NetmaskIps :
             /\ \A p \in 0..32 :
                   addr = FormatIp(ip) \o <<"/">> \o Digits(p) =>
                      Unwrap(maskRes) = [kind |-> "ok", ip |-> ip, netmask |-> C18_Mask(p)]
             /\ addr = FormatIp(ip) =>
                   Unwrap(maskRes) = [kind |-> "ok", ip |-> ip, netmask |-> C18_Mask(24)]
             /\ \A t \in (PrefixTexts \ {Digits(p) : p \in 0..32}) \cup BadPrefixTexts :
                   addr = FormatIp(ip) \o <<"/">> \o t => Unwrap(maskRes).kind = "err"
       /\ \A b \in BadIpTexts :
             \A t \in {Digits(p) : p \in 0..32} :
                (addr = b \/ addr = b \o <<"/">> \o t) => Unwrap(maskRes).kind = "err"
       /\ C18_Mask(0).segs = <<0, 0, 0, 0>>
       /\ C18_Mask(24).segs = <<255, 255, 255, 0>>
       /\ C18_Mask(32).segs = <<255, 255, 255, 255>>
\* what the code does: the same for the prefix lengths from 1 to 32, and a
\* panic for the prefix length 0
C18_NetmaskFrom1 ==
    maskRes # None =>
       /\ \A ip \in NetmaskIps :
             /\ \A p \in 1..32 :
                   addr = FormatIp(ip) \o <<"/">> \o Digits(p) =>
                      Unwrap(maskRes) = [kind |-> "ok", ip |-> ip, netmask |-> C18_Mask(p)]
             /\ addr = FormatIp(ip) \o <<"/", "0">> => Unwrap(maskRes).kind = "panic"
             /\ addr = FormatIp(ip) =>
                   Unwrap(maskRes) = [kind |-> "ok", ip |-> ip, netmask |-> C18_Mask(24)]
             /\ \A t \in (PrefixTexts \ {Digits(p) : p \in 0..32}) \cup BadPrefixTexts :
                   addr = FormatIp(ip) \o <<"/">> \o t => Unwrap(maskRes).kind = "err"
       /\ \A b \in BadIpTexts :
             \A t \in {Digits(p) : p \in 0..32} :
                (addr = b \/ addr = b \o <<"/">> \o t) => Unwrap(maskRes).kind = "err"

(* C19: with keepalive configured, get_keepalive returns the configured    *)
(* value as it is, whatever peer_timeout is: it is not clamped, not even   *)
(* when it is 0 or not smaller than peer_timeout.                          *)

C19_ExplicitKeepalive ==
    (IsSome(args.keepalive) /\ ops = <<"args">> /\ kaRes # IdleKeepalive) =>
       /\ config.keepalive = args.keepalive
       /\ kaRes = [kind |-> "value", val |-> Unwrap(args.keepalive)]
\* a keepalive above the peer_timeout given with it
C19_Witness ==
    /\ ops = <<"args">>
    /\ args.keepalive = Some(U32(840)) /\ args.peer_timeout = Some(U32(300))
    /\ config.peer_timeout = U32(300)
    /\ kaRes = [kind |-> "value", val |-> U32(840)]
\* keepalive 0
C19_WitnessZero ==
    /\ ops = <<"args">>
    /\ args.keepalive = Some(U32(0)) /\ args.peer_timeout = Some(U32(120))
    /\ kaRes = [kind |-> "value", val |-> U32(0)]

(* C20: merge_args moves the boolean options one way only: fix_rp_filter   *)
(* and daemonize from false to true, auto_claim and port_forwarding from   *)
(* true to false; a field that already has the flag's target value, or     *)
(* whose flag is not given, stays as it is, so no flags turn back a        *)
(* fix_rp_filter = true, auto_claim = false or port_forwarding = false     *)
(* that the config file has set.                                           *)

C20_SetByFile(i, j, o, v) ==
    /\ i < j /\ ops[i] = "file" /\ FileOpt(file, o) = Some(v)
    /\ \A k \in (i + 1)..j : ops[k] = "args"
C20_OneWayFlags ==
    \A j \in 1..Completed :
       ops[j] = "args" =>
          /\ After(j).fix_rp_filter = (Before(j).fix_rp_filter \/ args.fix_rp_filter)
          /\ After(j).daemonize = (Before(j).daemonize \/ args.daemon)
          /\ After(j).auto_claim = (Before(j).auto_claim /\ ~args.no_auto_claim)
          /\ After(j).port_forwarding =
                (Before(j).port_forwarding /\ ~args.no_port_forwarding)
          /\ \A i \in 1..(j - 1) :
                /\ C20_SetByFile(i, j, "fix_rp_filter", TRUE) => After(j).fix_rp_filter
                /\ C20_SetByFile(i, j, "auto_claim", FALSE) => ~After(j).auto_claim
                /\ C20_SetByFile(i, j, "port_forwarding", FALSE) =>
                      ~After(j).port_forwarding
\* the file sets auto_claim and port_forwarding to false, the flags give
\* neither --no-auto-claim nor --no-port-forwarding but --fix-rp-filter
C20_Witness ==
    /\ ops = <<"file", "args">> /\ status = "ok"
    /\ FileOpt(file, "auto_claim") = Some(FALSE)
    /\ FileOpt(file, "port_forwarding") = Some(FALSE)
    /\ FileOpt(file, "fix_rp_filter") = Some(FALSE)
    /\ ~args.no_auto_claim /\ ~args.no_port_forwarding /\ args.fix_rp_filter
    /\ ~config.auto_claim /\ ~config.port_forwarding /\ config.fix_rp_filter
\* the file sets fix_rp_filter to true, the flags do not give --fix-rp-filter
C20_WitnessKept ==
    /\ ops = <<"file", "args">> /\ status = "ok"
    /\ FileOpt(file, "fix_rp_filter") = Some(TRUE)
    /\ ~args.fix_rp_filter /\ args.no_auto_claim
    /\ config.fix_rp_filter /\ ~config.auto_claim

----------------------------------------------------------------------------
(* C21: crypto.algorithms is replaced, not accumulated: a merge whose file *)
(* or flags give a non-empty algorithms list leaves exactly that list, a   *)
(* merge that gives an empty list leaves the list as it was, and after     *)
(* merge_file then merge_args on the default Config the list is the flags' *)
(* list if non-empty, else the file's list if non-empty, else the default. *)

C21_Given(i) ==
    IF ops[i] = "file" THEN file.crypto.algorithms ELSE args.algorithms
C21_AlgorithmsReplaced ==
    /\ \A i \in 1..Completed :
          After(i).crypto.algorithms =
              IF C21_Given(i) # <<>> THEN C21_Given(i)
              ELSE Before(i).crypto.algorithms
    /\ (Completed >= 2 /\ ops[1] = "file" /\ ops[2] = "args") =>
          After(2).crypto.algorithms =
              IF args.algorithms # <<>> THEN args.algorithms
              ELSE IF file.crypto.algorithms # <<>> THEN file.crypto.algorithms
              ELSE Default.crypto.algorithms
\* the file's list was in force and the flags' different list replaced it
C21_Witness ==
    /\ status = "ok" /\ ops = <<"file", "args">>
    /\ file.crypto.algorithms # <<>> /\ args.algorithms # <<>>
    /\ file.crypto.algorithms # args.algorithms
    /\ hist[2].crypto.algorithms = file.crypto.algorithms
    /\ config.crypto.algorithms = args.algorithms
\* the file's list survives flags that name no algorithm
C21_WitnessKept ==
    /\ status = "ok" /\ ops = <<"file", "args">>
    /\ file.crypto.algorithms # <<>> /\ args.algorithms = <<>>
    /\ config.crypto.algorithms = file.crypto.algorithms

----------------------------------------------------------------------------
(* C22: however put_inbound, read, write, pop_outbound and has_inbound are *)
(* interleaved on a MockDevice, the successful reads return the packets    *)
(* given to put_inbound in the same order, each once and none skipped,     *)
(* always as (0, length of the packet); has_inbound answers true exactly   *)
(* when a packet put has not been read yet; write and pop_outbound leave   *)
(* the inbound queue as it is, read and put_inbound the outbound queue.    *)

C22_IsPut(c) == c.op = "put_inbound"
C22_IsRead(c) == c.op = "read" /\ c.res = "ok"
C22_Puts(n) ==
    LET ps == SelectSeq(SubSeq(calls, 1, n), C22_IsPut)
    IN  [i \in 1..Len(ps) |-> ps[i].data]
\* what each successful read returned: buffer[start .. start + length]
C22_Reads(n) ==
    LET rs == SelectSeq(SubSeq(calls, 1, n), C22_IsRead)
    IN  [i \in 1..Len(rs) |-> SubSeq(rs[i].data, rs[i].start + 1, rs[i].start + rs[i].len)]
C22_Fifo ==
    device.impl = "MockDevice" =>
        /\ Len(C22_Reads(Len(calls))) <= Len(C22_Puts(Len(calls)))
        /\ C22_Reads(Len(calls)) =
              SubSeq(C22_Puts(Len(calls)), 1, Len(C22_Reads(Len(calls))))
        /\ status = "ok" => C22_Reads(Len(calls)) \o inbound = C22_Puts(Len(calls))
        /\ \A i \in 1..Len(calls) :
              /\ C22_IsRead(calls[i]) =>
                    /\ calls[i].start = 0
                    /\ calls[i].len = Len(C22_Puts(i)[Len(C22_Reads(i))])
              /\ calls[i].op = "has_inbound" =>
                    (calls[i].res = "true" <=>
                        Len(C22_Puts(i)) > Len(C22_Reads(i)))
C22_Step ==
    (device.impl = "MockDevice" /\ Len(calls') = Len(calls) + 1) =>
        LET c == calls'[Len(calls')]
        IN  /\ c.op \in {"write", "pop_outbound", "has_inbound"} => inbound' = inbound
            /\ c.op \in {"read", "put_inbound", "has_inbound"} => outbound' = outbound
C22_MockFifo == []C22_Fifo /\ [][C22_Step]_vars
\* two different packets put, then both read back in that order
C22_Witness ==
    /\ status = "ok" /\ Len(calls) = 4
    /\ C22_Puts(4) = <<(<<1, 2>>), (<<7>>)>>
    /\ C22_Reads(4) = <<(<<1, 2>>), (<<7>>)>>
    /\ inbound = <<>>
\* a packet written and a packet put are each still there after the other
\* queue was used: put, write, read, pop_outbound
C22_WitnessBoth ==
    /\ status = "ok" /\ Len(calls) = 4
    /\ calls[1].op = "put_inbound" /\ calls[2].op = "write"
    /\ C22_IsRead(calls[3]) /\ calls[4].op = "pop_outbound"
    /\ C22_Reads(4) = C22_Puts(4)
    /\ calls[4].res = Some(Slice(calls[2].data, calls[2].start))

----------------------------------------------------------------------------
(* C23: MockDevice::read on an empty inbound queue returns an error and    *)
(* leaves the buffer, the inbound queue and the outbound queue as they     *)
(* were; the error does not stick: when a packet is put after a failed     *)
(* read and read next into a buffer that holds it (the contract of         *)
(* Device::read, device.rs:88-90), that read succeeds and returns the      *)
(* packet.                                                                 *)

C23_Failed(c) == c.op = "read" /\ c.res = "err"
C23_EmptyRead ==
    (device.impl = "MockDevice" /\ Len(calls') = Len(calls) + 1
        /\ calls'[Len(calls')].op = "read" /\ inbound = <<>>) =>
        LET c == calls'[Len(calls')]
        IN  /\ c.res = "err"
            /\ c.data = c.before
            /\ inbound' = inbound /\ outbound' = outbound
            /\ status' = status
C23_NotSticky ==
    \A i \in 1..Len(calls), j \in 1..Len(calls) :
        (/\ i < j /\ j < Len(calls)
         /\ C23_Failed(calls[i])
         /\ Len(C22_Puts(j - 1)) = Len(C22_Reads(j - 1))
         /\ calls[j].op = "put_inbound" /\ calls[j + 1].op = "read"
         /\ Len(calls[j + 1].before) >= Len(calls[j].data)) =>
            /\ calls[j + 1].res = "ok"
            /\ calls[j + 1].start = 0 /\ calls[j + 1].len = Len(calls[j].data)
            /\ SubSeq(calls[j + 1].data, 1, calls[j + 1].len) = calls[j].data
====
